---- MODULE Spec2Model ----
(***************************************************************************)
(* Model of the HS321 Modbus RTU master (src/src/HS321.cpp, HS321.h): one   *)
(* client object, the RS485 direction pin, the serial channel to the slave, *)
(* the millisecond clock, and the slave as the environment.                 *)
(*                                                                         *)
(* A call of the client runs as a sequence of steps (pc) that follow the    *)
(* statements of readParameters / writeParameters / sendData / receiveData. *)
(* The environment acts between the steps: the slave answers a request that *)
(* has been flushed to the wire (SlaveRespond), its bytes reach the UART    *)
(* receive buffer (Deliver), and the clock advances (Tick).                 *)
(*                                                                         *)
(* millis() is a 32-bit counter in the source; receiveData only uses the    *)
(* unsigned difference millis() - lastByteTime, which does not depend on    *)
(* the wrap, so the clock is kept below the wrap here.                      *)
(***************************************************************************)
EXTENDS Integers, Sequences, FiniteSets, TLC

(***************************************************************************)
(* Bounds of the model                                                      *)
(***************************************************************************)
\* number of clock advances in one behaviour
MaxTicks == 1
\* number of arrivals of bytes at the UART in one behaviour
MaxChunks == 1
\* value of millis() when the model starts
StartMillis == 1000
\* content of a caller's output buffer before a call
Garbage == 57005

(***************************************************************************)
(* Program constants                                                        *)
(***************************************************************************)
READ == 3
WRITE_ONE == 6
WRITE_RANGE == 16
GROUP_FC == 12
GROUP_d == 112
MAX_MODBUS_REGISTERS == 123
MAX_REQUEST_SIZE == 7 + (MAX_MODBUS_REGISTERS * 2)

\* HS321.h, lines 94-102: the commands, numbered from 0 by the compiler
FORWARD_RUN_COMMAND == 0
REVERSE_RUN_COMMAND == 1
FORWARD_RUN_JOG_COMMAND == 2
REVERSE_RUN_JOG_COMMAND == 3
FREE_STOP_COMMAND == 4
DECELERATE_STOP_COMMAND == 5
FAULT_RESET_COMMAND == 6

\* RS485Transmit / RS485Receive: the two levels of the direction pin
RS485Transmit == "HIGH"
RS485Receive == "LOW"

(***************************************************************************)
(* Fixed-width arithmetic                                                   *)
(***************************************************************************)
U8(x) == x % 256
U16(x) == x % 65536

RECURSIVE Xor(_, _)
Xor(a, b) ==
    IF a = 0 THEN b
    ELSE IF b = 0 THEN a
    ELSE (((a % 2) + (b % 2)) % 2) + (2 * Xor(a \div 2, b \div 2))

RECURSIVE BitOr(_, _)
BitOr(a, b) ==
    IF a = 0 THEN b
    ELSE IF b = 0 THEN a
    ELSE (IF (a % 2) = 1 \/ (b % 2) = 1 THEN 1 ELSE 0) + (2 * BitOr(a \div 2, b \div 2))

Min(a, b) == IF a < b THEN a ELSE b

(***************************************************************************)
(* calculateCRC: CRC16-Modbus over data[0 .. length-1]; length is uint8_t.  *)
(* data is a pointer: [null |-> BOOLEAN, mem |-> sequence of bytes].        *)
(***************************************************************************)
\* Then(v, Rest) is Rest(v), with v computed once, before Rest is entered: a
\* local of the source that is assigned and then used
Then(v, Rest(_)) == CHOOSE r \in { Rest(x) : x \in { v } } : TRUE

\* lines 447-453: eight times, shift right and XOR the polynomial 0xA001 when the
\* bit shifted out was 1
\* the shifts with the polynomial 0x8408 in place of 0xA001
RECURSIVE CrcShiftOtherPolynomial(_, _)
CrcShiftOtherPolynomial(crc, j) ==
    IF j = 0 THEN crc
    ELSE Then(IF (crc % 2) = 1 THEN Xor(crc \div 2, 33800) ELSE crc \div 2,
              LAMBDA next : CrcShiftOtherPolynomial(next, j - 1))

RECURSIVE CrcShift(_, _)
CrcShift(crc, j) ==
    IF j = 0 THEN crc
    ELSE Then(IF (crc % 2) = 1 THEN Xor(crc \div 2, 40961) ELSE crc \div 2,
              LAMBDA next : CrcShift(next, j - 1))

\* lines 445-454: the loop over data[lo-1 .. hi-1], entered with crc; the bytes are
\* taken in ascending order, the range being split in two only to keep the
\* evaluation shallow
RECURSIVE CrcLoop(_, _, _, _)
CrcLoop(mem, lo, hi, crc) ==
    IF lo > hi THEN crc
    ELSE IF lo = hi THEN Then(Xor(crc, mem[lo]), LAMBDA x : CrcShift(x, 8))
    ELSE Then(CrcLoop(mem, lo, (lo + hi) \div 2, crc),
              LAMBDA left : CrcLoop(mem, ((lo + hi) \div 2) + 1, hi, left))

\* the CRC with 0 returned for a null pointer or no bytes
calculateCRCZeroForNone(data, length) ==
    IF data.null \/ U8(length) = 0 THEN 0
    ELSE Then(data.mem, LAMBDA mem : CrcLoop(mem, 1, U8(length), 65535))

calculateCRC(data, length) ==
    IF data.null \/ U8(length) = 0 THEN 65535
    ELSE Then(data.mem, LAMBDA mem : CrcLoop(mem, 1, U8(length), 65535))

Ptr(m) == [null |-> FALSE, mem |-> m]
NullPtr == [null |-> TRUE, mem |-> << >>]

\* the two CRC bytes as the source stores them: low byte, then high byte
CrcLo(crc) == U8(crc % 256)
CrcHi(crc) == U8((crc \div 256) % 256)

(***************************************************************************)
(* Frames built by the client                                               *)
(***************************************************************************)
\* the read request with the start address low byte first
ReadRequestLowFirst(sa, start, n) ==
    LET head == << U8(sa), READ, U8(start % 256), U8(start \div 256),
                   U8(n \div 256), U8(n % 256) >>
        crc == calculateCRC(Ptr(head), 6)
    IN  head \o << CrcLo(crc), CrcHi(crc) >>

\* readParameters, lines 111-122: the 8-byte request of function 0x03
ReadRequest(sa, start, n) ==
    LET head == << U8(sa), READ, U8(start \div 256), U8(start % 256),
                   U8(n \div 256), U8(n % 256) >>
        crc == calculateCRC(Ptr(head), 6)
    IN  head \o << CrcLo(crc), CrcHi(crc) >>

\* the checks with the limit at 127 registers
ReadInputRejectedAbove127(av, n) == av.null \/ n = 0 \/ n > 127

\* the checks with the limit off by one: a read of 125 registers refused
ReadInputRejectedBelow125(av, n) == av.null \/ n = 0 \/ n >= 125

\* the checks without the test of the count against zero
ReadInputRejectedNoZero(av, n) == av.null \/ n > 125

\* readParameters, lines 102-109: the checks on the arguments
ReadInputRejected(av, n) == av.null \/ n = 0 \/ n > 125

\* writeParameters, line 276
WriteRequestSize(n) == IF n = 1 THEN 8 ELSE 9 + (n * 2)

\* writeParameters, lines 255-282: the checks on the arguments
WriteInputRejected(av, n) ==
    \/ av.null
    \/ n = 0
    \/ n > MAX_MODBUS_REGISTERS
    \/ WriteRequestSize(n) > MAX_REQUEST_SIZE

\* the request without its CRC, function 0x10 used for a single register too
WriteRequestBodyAlwaysRange(sa, start, vals, n) ==
    << U8(sa), WRITE_RANGE, U8(start \div 256), U8(start % 256),
       U8(n \div 256), U8(n % 256), U8(n * 2) >>
    \o [k \in 1..(2 * n) |->
           IF (k % 2) = 1 THEN U8(vals[(k + 1) \div 2] \div 256)
           ELSE U8(vals[k \div 2] % 256)]

\* writeParameters, lines 287-307: the request without its CRC
WriteRequestBody(sa, start, vals, n) ==
    IF n = 1
    THEN << U8(sa), WRITE_ONE, U8(start \div 256), U8(start % 256),
            U8(vals[1] \div 256), U8(vals[1] % 256) >>
    ELSE << U8(sa), WRITE_RANGE, U8(start \div 256), U8(start % 256),
            U8(n \div 256), U8(n % 256), U8(n * 2) >>
         \o [k \in 1..(2 * n) |->
                IF (k % 2) = 1 THEN U8(vals[(k + 1) \div 2] \div 256)
                ELSE U8(vals[k \div 2] % 256)]

\* the CRC taken over one byte less than the request holds before it
WriteRequestShortCRC(sa, start, vals, n) ==
    LET body == WriteRequestBody(sa, start, vals, n)
        crc == calculateCRC(Ptr(body), WriteRequestSize(n) - 3)
    IN  body \o << CrcLo(crc), CrcHi(crc) >>

\* writeParameters, lines 309-313: the CRC over requestSize - 2 bytes
WriteRequest(sa, start, vals, n) ==
    LET body == WriteRequestBody(sa, start, vals, n)
        crc == calculateCRC(Ptr(body), WriteRequestSize(n) - 2)
    IN  body \o << CrcLo(crc), CrcHi(crc) >>

(***************************************************************************)
(* Checks on a received frame                                               *)
(***************************************************************************)
\* the CRC stored in the last two bytes: (response[size-1] << 8) | response[size-2]
ReceivedCRC(response, size) == U16(BitOr(response[size] * 256, response[size - 1]))

\* the validation without the comparison of the CRC
validateWithoutCRC(response, responseSize, expectedAddress, expectedFunction) ==
    IF responseSize < 4 THEN FALSE
    ELSE IF response[1] # expectedAddress THEN FALSE
    ELSE IF response[2] = U8(BitOr(expectedFunction, 128)) THEN FALSE
    ELSE response[2] = expectedFunction

\* the validation without the comparison of the address
validateWithoutAddress(response, responseSize, expectedAddress, expectedFunction) ==
    IF responseSize < 4 THEN FALSE
    ELSE IF response[2] = U8(BitOr(expectedFunction, 128)) THEN FALSE
    ELSE IF response[2] # expectedFunction THEN FALSE
    ELSE calculateCRC(Ptr(response), responseSize - 2) = ReceivedCRC(response, responseSize)

\* the validation comparing only the low byte of the CRC
validateLowByteOnly(response, responseSize, expectedAddress, expectedFunction) ==
    IF responseSize < 4 THEN FALSE
    ELSE IF response[1] # expectedAddress THEN FALSE
    ELSE IF response[2] = U8(BitOr(expectedFunction, 128)) THEN FALSE
    ELSE IF response[2] # expectedFunction THEN FALSE
    ELSE calculateCRC(Ptr(response), responseSize - 2) % 256 = response[responseSize - 1]

\* lines 370-424
validateModbusResponse(response, responseSize, expectedAddress, expectedFunction) ==
    IF responseSize < 4 THEN FALSE
    ELSE IF response[1] # expectedAddress THEN FALSE
    ELSE IF response[2] = U8(BitOr(expectedFunction, 128)) THEN FALSE
    ELSE IF response[2] # expectedFunction THEN FALSE
    ELSE calculateCRC(Ptr(response), responseSize - 2) = ReceivedCRC(response, responseSize)

\* the checks on the answer to a read without the test of the function
ReadResponseAcceptedAnyFunction(response, responseSize, sa, n) ==
    /\ response[1] = sa
    /\ response[3] = n * 2
    /\ calculateCRC(Ptr(response), responseSize - 2) = ReceivedCRC(response, responseSize)

\* the checks on the answer to a read without the comparison of the CRC
ReadResponseAcceptedNoCRC(response, responseSize, sa, n) ==
    IF response[1] # sa \/ response[2] # READ THEN FALSE
    ELSE response[3] = n * 2

\* the checks on the answer to a read without the byte count
ReadResponseAcceptedNoCount(response, responseSize, sa, n) ==
    IF response[1] # sa \/ response[2] # READ THEN FALSE
    ELSE ReceivedCRC(response, responseSize) = calculateCRC(Ptr(response), responseSize - 2)

\* readParameters, lines 163-205: the checks made inline on the answer to a read
ReadResponseAccepted(response, responseSize, sa, n) ==
    IF response[1] # sa \/ response[2] # READ THEN FALSE
    ELSE IF response[3] # n * 2 THEN FALSE
    ELSE ReceivedCRC(response, responseSize) = calculateCRC(Ptr(response), responseSize - 2)

\* one register from two bytes, low byte first
DecodeRegisterLowFirst(hi, lo) == U16(BitOr(U16(lo * 256), hi))

\* readParameters, lines 210 and 215: one register from two bytes, high byte first
DecodeRegister(hi, lo) == U16(BitOr(U16(hi * 256), lo))

\* readParameters, lines 207-217: the values written to the caller's buffer
DecodeValues(response, n) ==
    [i \in 1..n |-> DecodeRegister(response[3 + ((i - 1) * 2) + 1],
                                   response[3 + ((i - 1) * 2) + 2])]

\* the address with the sub-index in the high byte and the group in the low
buildParameterAddressSwapped(group, subAddress) ==
    U16(BitOr(U16(subAddress * 256), group % 256))

\* HS321.h, line 285
buildParameterAddress(group, subAddress) == U16(BitOr(U16(group * 256), subAddress))

\* receiveData, line 521: integer division, then ceil of a whole number
CharTimeout(interCharTimeout, length) == (interCharTimeout * length) \div 1000

\* the quotient rounded to the nearest whole number
InterCharTimeoutRounded(baud) == (35000000 + (baud \div 2)) \div baud

\* begin, line 72: 3.5 * 10 * 1000000 / baud, truncated
InterCharTimeout(baud) == 35000000 \div baud

(***************************************************************************)
(* State                                                                    *)
(***************************************************************************)
VARIABLES
    \* the client object (HS321.h, lines 260-267); a pointer member is TRUE when
    \* it is not nullptr
    _initialized, _slaveAddress, _serialPort, _serialDebug, _baud,
    _totalTimeout, _interCharTimeout,
    \* the direction pin: its mode and the level it drives
    pinMode, pinLevel,
    \* the serial channel: opened by begin; bytes written by the client in the
    \* current call; bytes waiting in the UART receive buffer; bytes the slave
    \* has sent that have not arrived yet; the request the slave has not
    \* answered yet
    portOpen, txLog, rxBuf, inFlight, wireReq,
    \* the clock
    millis,
    \* the call in progress: position, public or private entry point, its
    \* arguments, the frames, the locals of receiveData, the value returned
    pc, op, slaveAddress, startAddress, arrayValues, numberRegisters,
    request, buffer, length, bytesRead, lastByteTime, charTimeout, received, ret,
    \* history of the current call: the caller's buffer before the call, the
    \* writes to the direction pin, the bytes read from the port, the uses of
    \* the debug port, the time receiveData began, the bytes in the channel
    \* that an earlier transaction left (stale) and how many of those this call
    \* has read, the answer the slave gave to this call's request
    argBefore, nPinWrites, nReads, nDebug, nullDeref, recvBegin, stale, staleRead,
    answer, answerKind, answerVals,
    \* whether begin has been called, the calls still to make, the budgets
    begun, script, ticks, chunks,
    \* a second caller of the same object: its position and its locals
    peer,
    \* what checkCommunicationSettings has printed in the current call: each
    \* label with the value that follows it
    report

clientVars == << _initialized, _slaveAddress, _serialPort, _serialDebug, _baud,
                 _totalTimeout, _interCharTimeout >>
pinVars == << pinMode, pinLevel >>
chanVars == << portOpen, txLog, rxBuf, inFlight, wireReq >>
argVars == << op, slaveAddress, startAddress, arrayValues, numberRegisters >>
recvVars == << buffer, length, bytesRead, lastByteTime, charTimeout, received >>
histVars == << argBefore, nPinWrites, nReads, nDebug, nullDeref, recvBegin, stale,
               staleRead, answer, answerKind, answerVals >>
vars == << clientVars, pinVars, chanVars, millis, pc, argVars, request, recvVars,
           ret, histVars, begun, script, ticks, chunks, peer, report >>

(***************************************************************************)
(* Inputs: the constructor's arguments and the script the application makes  *)
(***************************************************************************)
\* slave address, serial port given or not, debug port given or not, baud rate,
\* and the level the pin had before begin
Cfg9600 == [addr |-> 1, port |-> TRUE, debug |-> TRUE, baud |-> 9600, pin |-> "HIGH"]
Cfg300 == [addr |-> 247, port |-> TRUE, debug |-> FALSE, baud |-> 300, pin |-> "LOW"]
CfgNoPort == [addr |-> 1, port |-> FALSE, debug |-> TRUE, baud |-> 9600, pin |-> "HIGH"]
\* a fast line
Cfg115200 == [addr |-> 1, port |-> TRUE, debug |-> TRUE, baud |-> 115200, pin |-> "LOW"]

Configs == { Cfg9600, Cfg300, Cfg115200, CfgNoPort }

SlaveAddresses == { c.addr : c \in Configs }

\* one call: the operation, the (group, sub-index) pair or the two bytes of the
\* register address, whether the pointer argument is null, the register count or
\* length, the value written, and the bytes pointed to when the call takes bytes
Call(o, a, z, n, v) == [op |-> o, a |-> a, null |-> z, n |-> n, v |-> v, bytes |-> << >>]

NoReg == << 0, 0 >>
FC0 == << GROUP_FC, 0 >>
D5 == << GROUP_d, 5 >>

PublicCalls ==
    { Call("readFaultDescription", NoReg, z, 1, 0) : z \in BOOLEAN }
    \cup { Call("readRunningState", NoReg, z, 1, 0) : z \in BOOLEAN }
    \cup { Call("writeControlCommand", NoReg, FALSE, 1, 6) }
    \cup { Call("readSingleGroupParameter", D5, z, 1, 0) : z \in BOOLEAN }
    \cup { Call("readParametersInGroups", t[1], t[2], t[3], 0) :
             t \in { << FC0, FALSE, 0 >>, << FC0, TRUE, 3 >>, << D5, FALSE, 3 >>,
                     << FC0, FALSE, 125 >>, << D5, FALSE, 126 >> } }
    \cup { Call("writeSingleGroupParameter", D5, FALSE, 1, 5) }
    \cup { Call("writeParametersInGroups", t[1], t[2], t[3], 5) :
             t \in { << FC0, FALSE, 0 >>, << FC0, TRUE, 2 >>, << FC0, FALSE, 1 >>,
                     << D5, FALSE, 2 >>, << FC0, FALSE, 122 >>, << D5, FALSE, 123 >>,
                     << FC0, FALSE, 124 >> } }
    \cup { Call("checkCommunicationSettings", NoReg, FALSE, 5, 0) }

\* the private engine called directly, as a test of it would
PrivateCalls ==
    { Call("readParameters", << 16, 0 >>, t[1], t[2], 0) :
        t \in { << TRUE, 3 >>, << FALSE, 0 >>, << FALSE, 3 >> } }
    \cup { Call("writeParameters", << 32, 0 >>, t[1], t[2], 5) :
             t \in { << TRUE, 3 >>, << FALSE, 0 >>, << FALSE, 3 >> } }
    \cup { Call("receiveData", NoReg, t[1], t[2], 0) :
             t \in { << TRUE, 2 >>, << FALSE, 0 >>, << FALSE, 2 >> } }

\* calls made at the slow baud rate, without a debug port
SlowCalls ==
    { Call("checkCommunicationSettings", NoReg, FALSE, 5, 0),
      Call("readParametersInGroups", FC0, FALSE, 7, 0),
      Call("writeControlCommand", NoReg, FALSE, 1, 6),
      Call("receiveData", NoReg, FALSE, 20, 0) }

\* calls made at the fast baud rate: a receive of two bytes
FastCalls == { Call("receiveData", NoReg, FALSE, 2, 0) }

\* a write whose request has the CRC 0xFFFF: 01 06 00 00 B6 CC FF FF
SentinelCalls == { Call("writeSingleGroupParameter", << 0, 0 >>, FALSE, 1, 46796) }

\* a frame closed by its CRC, low byte first, as a slave sends it
SlaveFrame(body) ==
    LET crc == calculateCRC(Ptr(body), Len(body))
    IN  body \o << crc % 256, crc \div 256 >>

\* frame with bit k flipped, bit 0 being the low bit of the first byte
FlipBit(frame, k) ==
    [frame EXCEPT ![(k \div 8) + 1] =
        IF ((@ \div (2 ^ (k % 8))) % 2) = 1 THEN @ - (2 ^ (k % 8)) ELSE @ + (2 ^ (k % 8))]

\* calculateCRC called directly: the bytes, whether the pointer is null, and
\* the length given
CrcCall(bytes, z, n) == [Call("calculateCRC", NoReg, z, n, 0) EXCEPT !.bytes = bytes]

CrcCalls ==
    { CrcCall(b, FALSE, Len(b)) :
        b \in { << 1, 3, 0, 0, 0, 1 >>, << 1, 3, 2, 0, 100 >>, << 1, 6, 0, 0, 182, 204 >>,
                [i \in 1..255 |-> i], [i \in 1..255 |-> 255] } }
    \cup { CrcCall(<< x >>, FALSE, 1) : x \in { 0, 1, 128, 255 } }
    \cup { CrcCall(<< x, y >>, FALSE, 2) : x \in { 0, 1, 128, 255 }, y \in { 0, 1, 128, 255 } }
    \cup { CrcCall(<< 1, 3, 0, 0, 0, 1, 132, 10 >>, FALSE, 6),
           CrcCall(<< 1, 3, 0, 0, 0, 1 >>, TRUE, 6),
           CrcCall(<< 1, 3, 0, 0, 0, 1 >>, FALSE, 0),
           CrcCall(<< >>, TRUE, 0) }

\* validateModbusResponse called directly: the bytes, the size given, the
\* address and the function expected
ValidateCall(bytes, n, sa, fn) ==
    [Call("validateModbusResponse", << sa, fn >>, FALSE, n, 0) EXCEPT !.bytes = bytes]

\* well-formed frames with the address and function they answer
GoodFrames ==
    { << SlaveFrame(<< 1, WRITE_ONE, 32, 0, 0, 5 >>), 1, WRITE_ONE >>,
      << SlaveFrame(<< 247, WRITE_RANGE, 112, 5, 0, 2 >>), 247, WRITE_RANGE >>,
      << SlaveFrame(<< 1, READ >>), 1, READ >> }

ValidateCalls ==
    { ValidateCall(g[1], Len(g[1]), g[2], g[3]) : g \in GoodFrames }
    \cup UNION { { ValidateCall(FlipBit(g[1], k), Len(g[1]), g[2], g[3]) :
                     k \in 0..((8 * Len(g[1])) - 1) } : g \in GoodFrames }
    \cup { ValidateCall(SlaveFrame(<< 2, WRITE_ONE, 32, 0, 0, 5 >>), 8, 1, WRITE_ONE),
           ValidateCall(SlaveFrame(<< 1, WRITE_ONE + 128, 32, 0, 0, 5 >>), 8, 1, WRITE_ONE),
           ValidateCall(SlaveFrame(<< 1, WRITE_ONE + 128, 2 >>), 5, 1, WRITE_ONE),
           ValidateCall(SlaveFrame(<< 1, READ, 32, 0, 0, 5 >>), 8, 1, WRITE_ONE) }
    \cup { ValidateCall(SlaveFrame(<< 1, WRITE_ONE, 32, 0, 0, 5 >>), n, 1, WRITE_ONE) :
             n \in 0..3 }

\* HS321.h, lines 69-86: the groups F0..FC, FP and d
Groups == (0..13) \cup { GROUP_d }

\* buildParameterAddress called directly on every group and sub-index
BuildCalls ==
    { Call("buildParameterAddress", << g, s >>, FALSE, 0, 0) : g \in Groups, s \in 0..255 }

\* the group wrappers on the last group before d and on sub-indexes that
\* have their top bit set
GroupCalls ==
    { Call("readSingleGroupParameter", << 13, 255 >>, FALSE, 1, 0),
      Call("writeSingleGroupParameter", << 1, 128 >>, FALSE, 1, 5) }

\* calls made one after the other on the same client
FirstCalls == { Call("readRunningState", NoReg, FALSE, 1, 0) }
SecondCalls == { Call("readFaultDescription", NoReg, FALSE, 1, 0) }

\* what the application does with the client: the constructor's arguments and
\* the calls in order
Scenarios ==
    { [cfg |-> c, script |-> << k >>] : c \in { Cfg9600, CfgNoPort }, k \in PublicCalls }
    \cup { [cfg |-> Cfg9600, script |-> << k >>] :
             k \in PrivateCalls \cup SentinelCalls \cup CrcCalls \cup ValidateCalls
                   \cup BuildCalls \cup GroupCalls }
    \cup { [cfg |-> Cfg300, script |-> << k >>] : k \in SlowCalls }
    \cup { [cfg |-> Cfg115200, script |-> << k >>] : k \in FastCalls }
    \cup { [cfg |-> Cfg9600, script |-> << k1, k2 >>] :
             k1 \in FirstCalls, k2 \in SecondCalls }

\* values the slave reports
SlaveSeeds == {100}

\* an array of n values derived from a seed; high and low bytes differ
Values(seed, n) == [i \in 1..n |-> U16(seed + ((i - 1) * 259))]
\* a caller's output buffer of n elements before the call
Fresh(n) == [i \in 1..n |-> Garbage]

(***************************************************************************)
(* Init: the object after the constructor (HS321.cpp, lines 24-32)          *)
(***************************************************************************)
\* the second caller before it calls: no request, nothing written (sent), no
\* request with the slave (wire), the locals of its receiveData empty
PeerIdle ==
    [pc |-> "idle", request |-> << >>, sent |-> 0, wire |-> << >>, buffer |-> << >>,
     length |-> 0, bytesRead |-> 0, lastByteTime |-> 0, charTimeout |-> 0,
     received |-> FALSE, ret |-> FALSE, answer |-> << >>]

\* the object constructed with the arguments cfg, and the calls to make on it
Constructed(cfg, calls) ==
    /\ _slaveAddress = cfg.addr
    /\ _serialPort = cfg.port
    /\ _serialDebug = cfg.debug
    /\ _baud = cfg.baud
    /\ pinLevel = cfg.pin
    /\ script = calls
    /\ _initialized = FALSE
    /\ _totalTimeout = 0
    /\ _interCharTimeout = 0
    /\ pinMode = "INPUT"
    /\ portOpen = FALSE
    /\ txLog = << >>
    /\ rxBuf = << >>
    /\ inFlight = << >>
    /\ wireReq = << >>
    /\ millis = StartMillis
    /\ pc = "idle"
    /\ begun = FALSE
    /\ op = "none"
    /\ slaveAddress = 0
    /\ startAddress = 0
    /\ arrayValues = NullPtr
    /\ numberRegisters = 0
    /\ request = << >>
    /\ buffer = NullPtr
    /\ length = 0
    /\ bytesRead = 0
    /\ lastByteTime = 0
    /\ charTimeout = 0
    /\ received = FALSE
    /\ ret = FALSE
    /\ argBefore = NullPtr
    /\ nPinWrites = 0
    /\ nReads = 0
    /\ nDebug = 0
    /\ nullDeref = FALSE
    /\ recvBegin = 0
    /\ stale = 0
    /\ staleRead = 0
    /\ answer = << >>
    /\ answerKind = "none"
    /\ answerVals = << >>
    /\ ticks = 0
    /\ chunks = 0
    /\ peer = PeerIdle
    /\ report = << >>

Init == \E sc \in Scenarios : Constructed(sc.cfg, sc.script)

(***************************************************************************)
(* begin (lines 40-80)                                                      *)
(***************************************************************************)
Begin ==
    /\ pc = "idle"
    /\ ~begun
    /\ begun' = TRUE
    /\ IF ~_serialPort
       THEN /\ _initialized' = FALSE
            /\ nDebug' = IF _serialDebug THEN nDebug + 1 ELSE nDebug
            /\ UNCHANGED << _totalTimeout, _interCharTimeout, pinVars, portOpen >>
       ELSE /\ portOpen' = TRUE
            /\ pinMode' = "OUTPUT"
            /\ pinLevel' = RS485Receive
            /\ _totalTimeout' = 2000
            /\ _interCharTimeout' = InterCharTimeout(_baud)
            /\ _initialized' = TRUE
            /\ nDebug' = IF _serialDebug THEN nDebug + 1 ELSE nDebug
    /\ UNCHANGED << _slaveAddress, _serialPort, _serialDebug, _baud, txLog, rxBuf,
                    inFlight, wireReq, millis, pc, argVars, request, recvVars, ret,
                    argBefore, nPinWrites, nReads, nullDeref, recvBegin, stale,
                    staleRead, answer, answerKind, answerVals, script, ticks, chunks,
                    peer, report >>

(***************************************************************************)
(* Entry of a call.  A public operation makes its own checks (refused) and  *)
(* then enters readParameters or writeParameters (entry) with the arguments *)
(* it passes on; the history of the call starts afresh.                     *)
(***************************************************************************)
Enter(o, refused, entry, sa, start, av, n) ==
    /\ pc = "idle"
    /\ script # << >>
    /\ Head(script).op = o
    /\ script' = Tail(script)
    /\ op' = o
    /\ pc' = IF refused THEN "done" ELSE entry
    /\ slaveAddress' = sa
    /\ startAddress' = start
    /\ arrayValues' = av
    /\ numberRegisters' = n
    /\ ret' = FALSE
    /\ argBefore' = av
    /\ txLog' = << >>
    /\ nPinWrites' = 0
    /\ nReads' = 0
    /\ nDebug' = 0
    /\ nullDeref' = FALSE
    /\ recvBegin' = millis
    /\ stale' = Len(rxBuf) + Len(inFlight)
    /\ staleRead' = 0
    /\ answer' = << >>
    /\ answerKind' = "none"
    /\ answerVals' = << >>
    /\ report' = << >>
    /\ UNCHANGED << clientVars, pinVars, portOpen, rxBuf, inFlight, wireReq, millis,
                    request, recvVars, begun, ticks, chunks, peer >>

\* the call that is made next
Arg == Head(script)
\* its pointer argument: null, or a buffer of n elements to fill, or n values
OutPointer == IF Arg.null THEN NullPtr ELSE Ptr(Fresh(Arg.n))
InPointer == IF Arg.null THEN NullPtr ELSE Ptr(Values(Arg.v, Arg.n))

\* lines 607-612 and 654-656
readFaultDescription ==
    /\ script # << >>
    /\ Enter("readFaultDescription", ~_initialized \/ OutPointer.null,
             "readParameters", _slaveAddress, 32768, OutPointer, 1)

\* the running state read from the register of the fault code
readRunningStateAt8000 ==
    /\ script # << >>
    /\ Enter("readRunningState", ~_initialized \/ OutPointer.null,
             "readParameters", _slaveAddress, 32768, OutPointer, 1)

\* lines 622-627
readRunningState ==
    /\ script # << >>
    /\ Enter("readRunningState", ~_initialized \/ OutPointer.null,
             "readParameters", _slaveAddress, 12288, OutPointer, 1)

\* lines 637-642 and 705-707
\* the command written to the broadcast address instead of the client's
writeControlCommandBroadcast ==
    /\ script # << >>
    /\ Enter("writeControlCommand", ~_initialized,
             "writeParameters", 0, 8192, Ptr(<< Arg.v >>), 1)

writeControlCommand ==
    /\ script # << >>
    /\ Enter("writeControlCommand", ~_initialized,
             "writeParameters", _slaveAddress, 8192, Ptr(<< Arg.v >>), 1)

\* lines 687-693 and 654-656
readSingleGroupParameter ==
    /\ script # << >>
    /\ Enter("readSingleGroupParameter", ~_initialized \/ OutPointer.null,
             "readParameters", _slaveAddress,
             buildParameterAddress(Arg.a[1], Arg.a[2]), OutPointer, 1)

\* lines 669-675
readParametersInGroups ==
    /\ script # << >>
    /\ Enter("readParametersInGroups", ~_initialized \/ OutPointer.null \/ Arg.n = 0,
             "readParameters", _slaveAddress,
             buildParameterAddress(Arg.a[1], Arg.a[2]), OutPointer, Arg.n)

\* lines 738-744 and 705-707
writeSingleGroupParameter ==
    /\ script # << >>
    /\ Enter("writeSingleGroupParameter", ~_initialized,
             "writeParameters", _slaveAddress,
             buildParameterAddress(Arg.a[1], Arg.a[2]), Ptr(<< Arg.v >>), 1)

\* lines 720-726
writeParametersInGroups ==
    /\ script # << >>
    /\ Enter("writeParametersInGroups", ~_initialized \/ InPointer.null \/ Arg.n = 0,
             "writeParameters", _slaveAddress,
             buildParameterAddress(Arg.a[1], Arg.a[2]), InPointer, Arg.n)

\* the same call without the test of isInitialized()
checkCommunicationSettingsUnchecked ==
    /\ script # << >>
    /\ Enter("checkCommunicationSettings", FALSE,
             "readParameters", _slaveAddress, buildParameterAddress(GROUP_FC, 0),
             Ptr(Fresh(5)), 5)

\* lines 754-760: the read of five registers from (GROUP_FC, 0) into a local array
checkCommunicationSettings ==
    /\ script # << >>
    /\ Enter("checkCommunicationSettings", ~_initialized,
             "readParameters", _slaveAddress, buildParameterAddress(GROUP_FC, 0),
             Ptr(Fresh(5)), 5)

(***************************************************************************)
(* The private engine called directly: the object is initialized, since     *)
(* these functions use the port without a check.                            *)
(***************************************************************************)
\* lines 94-97
readParameters ==
    /\ script # << >>
    /\ _initialized
    /\ Enter("readParameters", FALSE, "readParameters", _slaveAddress,
             (Arg.a[1] * 256) + Arg.a[2],
             OutPointer, Arg.n)

\* lines 245-248
writeParameters ==
    /\ script # << >>
    /\ _initialized
    /\ Enter("writeParameters", FALSE, "writeParameters", _slaveAddress,
             (Arg.a[1] * 256) + Arg.a[2],
             InPointer, Arg.n)

\* line 506: the buffer and the length are the arguments
receiveData ==
    /\ script # << >>
    /\ _initialized
    /\ Enter("receiveData", FALSE, "receiveData", 0, 0,
             IF Arg.null THEN NullPtr ELSE Ptr(<< >>), Arg.n)

\* line 435: the data and the length are the arguments; the two checking
\* functions are called on a client that has begun
calculateCRCCall ==
    /\ script # << >>
    /\ _initialized
    /\ Enter("calculateCRC", FALSE, "calculateCRC", 0, 0,
             IF Arg.null THEN NullPtr ELSE Ptr(Arg.bytes), Arg.n)

\* lines 370-373: the response and its size are the arguments, the expected
\* address is kept in slaveAddress and the expected function in startAddress
validateModbusResponseCall ==
    /\ script # << >>
    /\ _initialized
    /\ Enter("validateModbusResponse", FALSE, "validateModbusResponse",
             Arg.a[1], Arg.a[2], Ptr(Arg.bytes), Arg.n)

\* HS321.h, line 285: the group is kept in startAddress and the sub-index in
\* numberRegisters
buildParameterAddressCall ==
    /\ script # << >>
    /\ _initialized
    /\ Enter("buildParameterAddress", FALSE, "buildParameterAddress", 0,
             Arg.a[1], NullPtr, Arg.a[2])

\* the engine function a call runs
Core(o) ==
    CASE o \in { "readFaultDescription", "readRunningState", "readSingleGroupParameter",
                 "readParametersInGroups", "checkCommunicationSettings",
                 "readParameters" } -> "read"
      [] o \in { "writeControlCommand", "writeSingleGroupParameter",
                 "writeParametersInGroups", "writeParameters" } -> "write"
      [] o = "receiveData" -> "recv"
      [] OTHER -> "none"

(***************************************************************************)
(* readParameters and writeParameters up to the transmission                *)
(***************************************************************************)
\* lines 101-135
RpRequest ==
    /\ pc = "readParameters"
    /\ IF ReadInputRejected(arrayValues, numberRegisters)
       THEN /\ pc' = "done"
            /\ ret' = FALSE
            /\ UNCHANGED request
       ELSE /\ request' = ReadRequest(slaveAddress, startAddress, numberRegisters)
            /\ pc' = "sendData"
            /\ UNCHANGED ret
    /\ UNCHANGED << clientVars, pinVars, chanVars, millis, argVars, recvVars,
                    histVars, begun, script, ticks, chunks, peer, report >>

\* lines 254-328
WpRequest ==
    /\ pc = "writeParameters"
    /\ IF WriteInputRejected(arrayValues, numberRegisters)
       THEN /\ pc' = "done"
            /\ ret' = FALSE
            /\ UNCHANGED request
       ELSE /\ request' = WriteRequest(slaveAddress, startAddress, arrayValues.mem,
                                       numberRegisters)
            /\ pc' = "sendData"
            /\ UNCHANGED ret
    /\ UNCHANGED << clientVars, pinVars, chanVars, millis, argVars, recvVars,
                    histVars, begun, script, ticks, chunks, peer, report >>

(***************************************************************************)
(* sendData (lines 473-493)                                                 *)
(***************************************************************************)
\* line 479: digitalWrite(_transmitterModeContact, RS485Transmit)
\* sendData without the switch of the direction line to transmit
SdTransmitOmitted ==
    /\ pc = "sendData"
    /\ pc' = "sd_write"
    /\ UNCHANGED << clientVars, pinVars, chanVars, millis, argVars, request, recvVars,
                    ret, histVars, begun, script, ticks, chunks, peer, report >>

SdTransmit ==
    /\ pc = "sendData"
    /\ pinLevel' = RS485Transmit
    /\ nPinWrites' = nPinWrites + 1
    /\ pc' = "sd_write"
    /\ UNCHANGED << clientVars, pinMode, chanVars, millis, argVars, request, recvVars,
                    ret, argBefore, nReads, nDebug, nullDeref, recvBegin, stale,
                    staleRead, answer, answerKind, answerVals, begun, script, ticks,
                    peer, report, chunks >>

\* line 483: _serialPort->write(data, length)
SdWrite ==
    /\ pc = "sd_write"
    /\ txLog' = txLog \o request
    /\ pc' = "sd_flush"
    /\ UNCHANGED << clientVars, pinVars, portOpen, rxBuf, inFlight, wireReq, millis,
                    argVars, request, recvVars, ret, histVars, begun, script, ticks,
                    peer, report, chunks >>

\* line 484: _serialPort->flush(); the whole request has now reached the slave
SdFlush ==
    /\ pc = "sd_flush"
    /\ wireReq' = request
    /\ pc' = "sd_receive"
    /\ UNCHANGED << clientVars, pinVars, portOpen, txLog, rxBuf, inFlight, millis,
                    argVars, request, recvVars, ret, histVars, begun, script, ticks,
                    peer, report, chunks >>

\* sendData returning without the second write to the pin
SdReceiveOmitted ==
    /\ pc = "sd_receive"
    /\ pc' = "receiveData"
    /\ UNCHANGED << clientVars, pinVars, chanVars, millis, argVars, request, recvVars,
                    ret, histVars, begun, script, ticks, chunks, peer, report >>

\* line 487: digitalWrite(_transmitterModeContact, RS485Receive)
SdReceive ==
    /\ pc = "sd_receive"
    /\ pinLevel' = RS485Receive
    /\ nPinWrites' = nPinWrites + 1
    /\ pc' = "receiveData"
    /\ UNCHANGED << clientVars, pinMode, chanVars, millis, argVars, request, recvVars,
                    ret, argBefore, nReads, nDebug, nullDeref, recvBegin, stale,
                    staleRead, answer, answerKind, answerVals, begun, script, ticks,
                    peer, report, chunks >>

(***************************************************************************)
(* receiveData (lines 506-596)                                              *)
(***************************************************************************)
\* readParameters line 140 and writeParameters line 334: the length expected
ResponseSize(core, n) == IF core = "read" THEN 5 + (n * 2) ELSE 8

\* the difference taken between two readings of the same instant
ElapsedStuck == millis - millis

\* the time measured from the beginning of the receive
ElapsedSinceBegin == millis - recvBegin

\* lines 532 and 561: millis() - lastByteTime
Elapsed == millis - lastByteTime

\* line 532
TotalTimeoutExpired(elapsed, totalTimeout) == elapsed > totalTimeout

\* the inter-character timeout never taken
CharTimeoutExpiredNever(read, len, available, elapsed, timeout) == FALSE

\* lines 559-561
CharTimeoutExpired(read, len, available, elapsed, timeout) ==
    read < len /\ available = 0 /\ elapsed > timeout

\* the entry with the window of this receive stored in the member
RdEntryStoresTimeout ==
    /\ pc = "receiveData"
    /\ LET buf == IF Core(op) = "recv" THEN arrayValues ELSE Ptr(<< >>)
           len == IF Core(op) = "recv" THEN numberRegisters
                  ELSE ResponseSize(Core(op), numberRegisters)
       IN  /\ buffer' = buf
           /\ length' = len
           /\ IF buf.null \/ len = 0
              THEN /\ received' = FALSE
                   /\ pc' = "returned"
                   /\ UNCHANGED << bytesRead, lastByteTime, charTimeout,
                                   _interCharTimeout >>
              ELSE /\ bytesRead' = 0
                   /\ lastByteTime' = millis
                   /\ charTimeout' = CharTimeout(_interCharTimeout, len)
                   /\ _interCharTimeout' = CharTimeout(_interCharTimeout, len)
                   /\ received' = FALSE
                   /\ pc' = "rd_while"
    /\ recvBegin' = millis
    /\ UNCHANGED << _initialized, _slaveAddress, _serialPort, _serialDebug, _baud,
                    _totalTimeout, pinVars, chanVars, millis, argVars, request, ret,
                    argBefore, nPinWrites, nReads, nDebug, nullDeref, stale,
                    staleRead, answer, answerKind, answerVals, begun, script, ticks,
                    chunks, peer, report >>

\* lines 511-521: the checks on the arguments and the locals
RdEntry ==
    /\ pc = "receiveData"
    /\ LET buf == IF Core(op) = "recv" THEN arrayValues ELSE Ptr(<< >>)
           len == IF Core(op) = "recv" THEN numberRegisters
                  ELSE ResponseSize(Core(op), numberRegisters)
       IN  /\ buffer' = buf
           /\ length' = len
           /\ IF buf.null \/ len = 0
              THEN /\ received' = FALSE
                   /\ pc' = "returned"
                   /\ UNCHANGED << bytesRead, lastByteTime, charTimeout >>
              ELSE /\ bytesRead' = 0
                   /\ lastByteTime' = millis
                   /\ charTimeout' = CharTimeout(_interCharTimeout, len)
                   /\ received' = FALSE
                   /\ pc' = "rd_while"
    /\ recvBegin' = millis
    /\ UNCHANGED << clientVars, pinVars, chanVars, millis, argVars, request, ret,
                    argBefore, nPinWrites, nReads, nDebug, nullDeref, stale,
                    staleRead, answer, answerKind, answerVals, begun, script, ticks,
                    chunks, peer, report >>

\* lines 530-540: the loop condition and the total timeout
RdWhile ==
    /\ pc = "rd_while"
    /\ pc' = IF bytesRead < length /\ ~TotalTimeoutExpired(Elapsed, _totalTimeout)
             THEN "rd_read" ELSE "rd_return"
    /\ UNCHANGED << clientVars, pinVars, chanVars, millis, argVars, request, recvVars,
                    ret, histVars, begun, script, ticks, chunks, peer, report >>

\* the inner loop without the test of bytesRead against length
RdReadAll ==
    /\ pc = "rd_read"
    /\ LET k == Len(rxBuf)
       IN  /\ buffer' = [buffer EXCEPT !.mem = @ \o SubSeq(rxBuf, 1, k)]
           /\ rxBuf' = SubSeq(rxBuf, k + 1, Len(rxBuf))
           /\ bytesRead' = bytesRead + k
           /\ lastByteTime' = IF k > 0 THEN millis ELSE lastByteTime
           /\ nReads' = nReads + k
           /\ staleRead' = staleRead + Min(k, stale)
           /\ stale' = stale - Min(k, stale)
    /\ pc' = "rd_char"
    /\ UNCHANGED << clientVars, pinVars, portOpen, txLog, inFlight, wireReq, millis,
                    argVars, request, length, charTimeout, received, ret, argBefore,
                    nPinWrites, nDebug, nullDeref, recvBegin, answer, answerKind,
                    answerVals, begun, script, ticks, chunks, peer, report >>

\* lines 543-555: the inner loop takes every byte available, up to length
RdRead ==
    /\ pc = "rd_read"
    /\ LET k == Min(Len(rxBuf), length - bytesRead)
       IN  /\ buffer' = [buffer EXCEPT !.mem = @ \o SubSeq(rxBuf, 1, k)]
           /\ rxBuf' = SubSeq(rxBuf, k + 1, Len(rxBuf))
           /\ bytesRead' = bytesRead + k
           /\ lastByteTime' = IF k > 0 THEN millis ELSE lastByteTime
           /\ nReads' = nReads + k
           /\ staleRead' = staleRead + Min(k, stale)
           /\ stale' = stale - Min(k, stale)
    /\ pc' = "rd_char"
    /\ UNCHANGED << clientVars, pinVars, portOpen, txLog, inFlight, wireReq, millis,
                    argVars, request, length, charTimeout, received, ret, argBefore,
                    nPinWrites, nDebug, nullDeref, recvBegin, answer, answerKind,
                    answerVals, begun, script, ticks, chunks, peer, report >>

\* lines 558-572: the inter-character timeout, looked at when no byte is available
RdChar ==
    /\ pc = "rd_char"
    /\ pc' = IF CharTimeoutExpired(bytesRead, length, Len(rxBuf), Elapsed, charTimeout)
             THEN "rd_return" ELSE "rd_while"
    /\ UNCHANGED << clientVars, pinVars, chanVars, millis, argVars, request, recvVars,
                    ret, histVars, begun, script, ticks, chunks, peer, report >>

\* line 595
RdReturn ==
    /\ pc = "rd_return"
    /\ received' = (bytesRead = length)
    /\ pc' = "returned"
    /\ UNCHANGED << clientVars, pinVars, chanVars, millis, argVars, request, buffer,
                    length, bytesRead, lastByteTime, charTimeout, ret, histVars, begun,
                    script, ticks, chunks, peer, report >>

(***************************************************************************)
(* After receiveData has returned                                           *)
(***************************************************************************)
\* the answer to a read with the values stored before the checks on the frame
RpResponseDecodeFirst ==
    /\ pc = "returned"
    /\ Core(op) = "read"
    /\ arrayValues' = IF received
                      THEN [arrayValues EXCEPT
                               !.mem = DecodeValues(buffer.mem, numberRegisters)]
                      ELSE arrayValues
    /\ IF received /\ ReadResponseAccepted(buffer.mem, length, slaveAddress,
                                           numberRegisters)
       THEN /\ ret' = TRUE
            /\ pc' = IF op = "checkCommunicationSettings" THEN "ccs_print" ELSE "done"
       ELSE /\ ret' = FALSE
            /\ pc' = "done"
    /\ UNCHANGED << clientVars, pinVars, chanVars, millis, op, slaveAddress,
                    startAddress, numberRegisters, request, recvVars, histVars, begun,
                    script, ticks, chunks, peer, report >>

\* readParameters, lines 144-230; checkCommunicationSettings goes on to print
RpResponse ==
    /\ pc = "returned"
    /\ Core(op) = "read"
    /\ IF received /\ ReadResponseAccepted(buffer.mem, length, slaveAddress,
                                           numberRegisters)
       THEN /\ arrayValues' = [arrayValues EXCEPT
                                  !.mem = DecodeValues(buffer.mem, numberRegisters)]
            /\ ret' = TRUE
            /\ pc' = IF op = "checkCommunicationSettings" THEN "ccs_print" ELSE "done"
       ELSE /\ ret' = FALSE
            /\ pc' = "done"
            /\ UNCHANGED arrayValues
    /\ UNCHANGED << clientVars, pinVars, chanVars, millis, op, slaveAddress,
                    startAddress, numberRegisters, request, recvVars, histVars, begun,
                    script, ticks, chunks, peer, report >>

\* the answer to a write with the request sent once more after a failure
WpResponseRetry ==
    /\ pc = "returned"
    /\ Core(op) = "write"
    /\ ret' = (received /\ validateModbusResponse(buffer.mem, 8, slaveAddress,
                                                  request[2]))
    /\ pc' = IF ret' \/ nPinWrites >= 4 THEN "done" ELSE "sendData"
    /\ UNCHANGED << clientVars, pinVars, chanVars, millis, argVars, request, recvVars,
                    histVars, begun, script, ticks, chunks, peer, report >>

\* writeParameters, lines 337-352: the function expected is request[1]
WpResponse ==
    /\ pc = "returned"
    /\ Core(op) = "write"
    /\ ret' = (received /\ validateModbusResponse(buffer.mem, 8, slaveAddress,
                                                  request[2]))
    /\ pc' = "done"
    /\ UNCHANGED << clientVars, pinVars, chanVars, millis, argVars, request, recvVars,
                    histVars, begun, script, ticks, chunks, peer, report >>

\* receiveData called directly: its result is the result of the call
RecvResult ==
    /\ pc = "returned"
    /\ Core(op) = "recv"
    /\ ret' = received
    /\ pc' = "done"
    /\ UNCHANGED << clientVars, pinVars, chanVars, millis, argVars, request, recvVars,
                    histVars, begun, script, ticks, chunks, peer, report >>

\* calculateCRC called directly: its result is the result of the call
CrcResult ==
    /\ pc = "calculateCRC"
    /\ ret' = calculateCRC(arrayValues, numberRegisters)
    /\ pc' = "done"
    /\ UNCHANGED << clientVars, pinVars, chanVars, millis, argVars, request, recvVars,
                    histVars, begun, script, ticks, chunks, peer, report >>

\* buildParameterAddress called directly: its result is the result of the call
BuildResult ==
    /\ pc = "buildParameterAddress"
    /\ ret' = buildParameterAddress(startAddress, numberRegisters)
    /\ pc' = "done"
    /\ UNCHANGED << clientVars, pinVars, chanVars, millis, argVars, request, recvVars,
                    histVars, begun, script, ticks, chunks, peer, report >>

\* validateModbusResponse called directly: its result is the result of the call
ValidateResult ==
    /\ pc = "validateModbusResponse"
    /\ ret' = validateModbusResponse(arrayValues.mem, numberRegisters, slaveAddress,
                                     startAddress)
    /\ pc' = "done"
    /\ UNCHANGED << clientVars, pinVars, chanVars, millis, argVars, request, recvVars,
                    histVars, begun, script, ticks, chunks, peer, report >>

\* lines 760-780: the five labels and, after each, the element of the local
\* array that is printed
ReportLines(values) ==
    << << "FC.00 (Baud rate): ", values[1] >>,
       << "FC.01 (Data format): ", values[2] >>,
       << "FC.02 (Address): ", values[3] >>,
       << "FC.03 (Timeout Communication): ", values[4] >>,
       << "FC.05 (Error Communication): ", values[5] >> >>

\* checkCommunicationSettings, lines 760-780: ten prints through _serialDebug,
\* with no check of the pointer; through a null pointer the behaviour is
\* undefined, and the call may return either value
CcsPrint ==
    /\ pc = "ccs_print"
    /\ IF _serialDebug
       THEN /\ nDebug' = nDebug + 10
            /\ report' = ReportLines(arrayValues.mem)
            /\ ret' = TRUE
            /\ UNCHANGED nullDeref
       ELSE /\ nullDeref' = TRUE
            /\ ret' \in BOOLEAN
            /\ UNCHANGED << nDebug, report >>
    /\ pc' = "done"
    /\ UNCHANGED << clientVars, pinVars, chanVars, millis, argVars, request, recvVars,
                    argBefore, nPinWrites, nReads, recvBegin, stale, staleRead, answer,
                    answerKind, answerVals, begun, script, ticks, chunks, peer >>

\* the call returns to its caller: its locals and its history are gone, and
\* the slave answers no request after the call that sent it has ended
Return ==
    /\ pc = "done"
    /\ pc' = "idle"
    /\ op' = "none"
    /\ slaveAddress' = 0
    /\ startAddress' = 0
    /\ arrayValues' = NullPtr
    /\ numberRegisters' = 0
    /\ request' = << >>
    /\ buffer' = NullPtr
    /\ length' = 0
    /\ bytesRead' = 0
    /\ lastByteTime' = 0
    /\ charTimeout' = 0
    /\ received' = FALSE
    /\ ret' = FALSE
    /\ wireReq' = << >>
    /\ txLog' = << >>
    /\ argBefore' = NullPtr
    /\ nPinWrites' = 0
    /\ nReads' = 0
    /\ nDebug' = 0
    /\ nullDeref' = FALSE
    /\ recvBegin' = 0
    /\ stale' = 0
    /\ staleRead' = 0
    /\ answer' = << >>
    /\ answerKind' = "none"
    /\ answerVals' = << >>
    /\ report' = << >>
    /\ UNCHANGED << clientVars, pinVars, portOpen, rxBuf, inFlight, millis, begun,
                    script, ticks, chunks, peer >>

(***************************************************************************)
(* The environment: the slave, the wire and the clock                       *)
(***************************************************************************)
\* the data bytes of a read answer: each value high byte first
RegisterBytes(vals) ==
    [k \in 1..(2 * Len(vals)) |->
        IF (k % 2) = 1 THEN vals[(k + 1) \div 2] \div 256 ELSE vals[k \div 2] % 256]

\* the well-formed answer to a read of Len(vals) registers
ReadAnswer(sa, vals) ==
    SlaveFrame(<< sa, READ, 2 * Len(vals) >> \o RegisterBytes(vals))

\* the well-formed answer to a write: the echo of the first six bytes
WriteAnswer(req) == SlaveFrame(SubSeq(req, 1, 6))

\* what the slave may do with a request of function fn
AnswerKinds(fn) ==
    { "ok", "address", "function", "exception", "crc", "short", "long" }
    \cup (IF fn = READ THEN { "bytecount", "otherfn" } ELSE { "other" })

\* what the slave may send in answer to req; vals are the registers it reports
SlaveAnswer(req, kind, vals) ==
    LET sa == req[1]
        fn == req[2]
        good == IF fn = READ THEN ReadAnswer(sa, vals) ELSE WriteAnswer(req)
        n == Len(good)
        body == SubSeq(good, 1, n - 2)
    IN  CASE kind = "ok" -> good
          [] kind = "other" -> SlaveFrame(<< sa, fn, 171, 205, 18, 52 >>)
          [] kind = "address" -> SlaveFrame([body EXCEPT ![1] = (sa + 1) % 256])
          [] kind = "function" -> SlaveFrame([body EXCEPT ![2] = fn + 128])
          [] kind = "otherfn" -> SlaveFrame([body EXCEPT ![2] = 4])
          [] kind = "exception" -> SlaveFrame(<< sa, fn + 128, 2 >>)
          [] kind = "bytecount" -> SlaveFrame([body EXCEPT ![3] = (@ + 2) % 256])
          [] kind = "crc" -> [good EXCEPT ![n] = Xor(@, 1)]
          [] kind = "short" -> SubSeq(good, 1, n - 1)
          [] kind = "long" -> good \o << 0 >>

\* the number of registers a read request asks for
RequestedCount(req) == (req[5] * 256) + req[6]

\* the slave answers the request it has received; the client cannot see when it
\* does, only when the bytes arrive, so one position of the call is enough
SlaveRespond ==
    /\ wireReq # << >>
    /\ pc = "receiveData"
    /\ \E kind \in AnswerKinds(wireReq[2]), seed \in SlaveSeeds :
          LET vals == IF wireReq[2] = READ THEN Values(seed, RequestedCount(wireReq))
                      ELSE << >>
              frame == SlaveAnswer(wireReq, kind, vals)
          IN  /\ inFlight' = inFlight \o frame
              /\ answer' = frame
              /\ answerKind' = kind
              /\ answerVals' = vals
    /\ wireReq' = << >>
    /\ UNCHANGED << clientVars, pinVars, portOpen, txLog, rxBuf, millis, pc, argVars,
                    request, recvVars, ret, argBefore, nPinWrites, nReads, nDebug,
                    nullDeref, recvBegin, stale, staleRead, begun, script, ticks,
                    peer, report, chunks >>

\* bytes on their way reach the UART receive buffer: the next one, or all of
\* them.  The client looks at the buffer at lines 543 and 559 only, so an
\* arrival is placed before one of the two: a byte that arrives between two
\* calls, or while the request is sent, is seen like one that arrives before
\* the first pass of line 543
Deliver ==
    /\ inFlight # << >>
    /\ pc \in { "rd_read", "rd_char" }
    /\ chunks < MaxChunks
    /\ \E k \in { 1, Len(inFlight) } :
          /\ rxBuf' = rxBuf \o SubSeq(inFlight, 1, k)
          /\ inFlight' = SubSeq(inFlight, k + 1, Len(inFlight))
    /\ chunks' = chunks + 1
    /\ UNCHANGED << clientVars, pinVars, portOpen, txLog, wireReq, millis, pc,
                    argVars, request, recvVars, ret, histVars, begun, script, ticks,
                    peer, report >>

\* the clock advances while receiveData polls it: by the inter-character
\* window of the running receive, by one millisecond more, or past the total
\* timeout.  receiveData samples the clock at lines 532, 546 and 561; time that
\* passes between 532 and 546 only moves the stamp of the bytes read at 546,
\* which no later test can tell from time that did not pass, so an advance is
\* placed before line 532 or before line 561
TickSteps == { charTimeout, charTimeout + 1, _totalTimeout + 1 } \ { 0 }

Tick ==
    /\ pc \in { "rd_while", "rd_char" }
    /\ ticks < MaxTicks
    /\ \E d \in TickSteps : millis' = millis + d
    /\ ticks' = ticks + 1
    /\ UNCHANGED << clientVars, pinVars, chanVars, pc, argVars, request, recvVars, ret,
                    histVars, begun, script, chunks, peer, report >>

(***************************************************************************)
(* Specification                                                            *)
(***************************************************************************)
Next ==
    \/ Begin
    \/ readFaultDescription
    \/ readRunningState
    \/ writeControlCommand
    \/ readSingleGroupParameter
    \/ readParametersInGroups
    \/ writeSingleGroupParameter
    \/ writeParametersInGroups
    \/ checkCommunicationSettings
    \/ readParameters
    \/ writeParameters
    \/ receiveData
    \/ calculateCRCCall
    \/ validateModbusResponseCall
    \/ buildParameterAddressCall
    \/ RpRequest
    \/ WpRequest
    \/ SdTransmit
    \/ SdWrite
    \/ SdFlush
    \/ SdReceive
    \/ RdEntry
    \/ RdWhile
    \/ RdRead
    \/ RdChar
    \/ RdReturn
    \/ RpResponse
    \/ WpResponse
    \/ RecvResult
    \/ CrcResult
    \/ ValidateResult
    \/ BuildResult
    \/ CcsPrint
    \/ Return
    \/ SlaveRespond
    \/ Deliver
    \/ Tick

Spec == Init /\ [][Next]_vars

(***************************************************************************)
(* Termination: the same client with a clock that keeps advancing and bytes *)
(* that arrive in any number of pieces, for calls with short frames.        *)
(***************************************************************************)
\* the clock advances for as long as receiveData waits on it with nothing to
\* read: past the inter-character window, or past the total timeout.  The
\* advance is seen at the next reading of millis(), line 561 or line 532; the
\* bytes that arrive after it are those of Arrive.  Once one of the two waits
\* is over, more time changes nothing that the loop tests before it leaves or
\* reads a byte, so the clock is followed up to there.  millis() is driven by
\* a timer interrupt, which the loop of lines 530-572 does not mask
ClockAdvance ==
    /\ pc = "rd_char"
    /\ rxBuf = << >>
    /\ millis - lastByteTime <= (IF charTimeout < _totalTimeout THEN charTimeout
                                 ELSE _totalTimeout)
    /\ \E d \in { charTimeout + 1, _totalTimeout + 1 } : millis' = millis + d
    /\ UNCHANGED << clientVars, pinVars, chanVars, pc, argVars, request, recvVars, ret,
                    histVars, begun, script, ticks, chunks, peer, report >>

\* bytes on their way arrive, one more or all of them, any number of times
Arrive ==
    /\ inFlight # << >>
    /\ pc \in { "rd_read", "rd_char" }
    /\ \E k \in { 1, Len(inFlight) } :
          /\ rxBuf' = rxBuf \o SubSeq(inFlight, 1, k)
          /\ inFlight' = SubSeq(inFlight, k + 1, Len(inFlight))
    /\ UNCHANGED << clientVars, pinVars, portOpen, txLog, wireReq, millis, pc,
                    argVars, request, recvVars, ret, histVars, begun, script, ticks,
                    chunks, peer, report >>

\* the calls followed to their end: a read and a write of one register and
\* receiveData alone at 9600 baud, where the inter-character window is the
\* shorter wait, and receiveData for 20 bytes at 300 baud, where the total
\* timeout is
LiveCases ==
    { << Cfg9600.baud, << Call("readRunningState", NoReg, FALSE, 1, 0) >> >>,
      << Cfg9600.baud, << Call("writeControlCommand", NoReg, FALSE, 1, 6) >> >>,
      << Cfg9600.baud, << Call("receiveData", NoReg, FALSE, 2, 0) >> >>,
      << Cfg300.baud, << Call("receiveData", NoReg, FALSE, 20, 0) >> >> }

LiveInit == Init /\ _serialPort /\ << _baud, script >> \in LiveCases

\* the statements of a call, which the processor runs one after the other
ClientStep ==
    \/ RpRequest
    \/ WpRequest
    \/ SdTransmit
    \/ SdWrite
    \/ SdFlush
    \/ SdReceive
    \/ RdEntry
    \/ RdWhile
    \/ RdRead
    \/ RdChar
    \/ RdReturn
    \/ RpResponse
    \/ WpResponse
    \/ RecvResult

LiveNext ==
    \/ Begin
    \/ readRunningState
    \/ writeControlCommand
    \/ receiveData
    \/ ClientStep
    \/ Return
    \/ SlaveRespond
    \/ Arrive
    \/ ClockAdvance

LiveSpec ==
    /\ LiveInit
    /\ [][LiveNext]_vars
    /\ WF_vars(ClientStep)
    /\ SF_vars(ClockAdvance)

(***************************************************************************)
(* Frames that arrive slowly                                                *)
(***************************************************************************)
\* after a byte has been stored (or the receive has begun) and with nothing
\* waiting, the clock advances by the longest time that is within both the
\* inter-character window and the total timeout
Gap ==
    /\ pc = "rd_char"
    /\ rxBuf = << >>
    /\ millis = lastByteTime
    /\ millis' = millis + Min(charTimeout, _totalTimeout)
    /\ UNCHANGED << clientVars, pinVars, chanVars, pc, argVars, request, recvVars, ret,
                    histVars, begun, script, ticks, chunks, peer, report >>

\* the calls received slowly, all at 300 baud: a write (8 bytes expected,
\* window 933 ms), a read of 7 registers (19 bytes, window 2216 ms, longer than
\* the total timeout) and receiveData alone
GapCases ==
    { << Call("writeControlCommand", NoReg, FALSE, 1, 6) >>,
      << Call("readParametersInGroups", FC0, FALSE, 7, 0) >>,
      << Call("receiveData", NoReg, FALSE, 20, 0) >> }

GapInit == Init /\ _serialPort /\ _baud = Cfg300.baud /\ script \in GapCases

GapNext ==
    \/ Begin
    \/ readParametersInGroups
    \/ writeControlCommand
    \/ receiveData
    \/ ClientStep
    \/ Return
    \/ SlaveRespond
    \/ Arrive
    \/ Gap
    \/ ClockAdvance

GapSpec == GapInit /\ [][GapNext]_vars

(***************************************************************************)
(* A clock read at least once per millisecond                               *)
(***************************************************************************)
\* a pass of the inner loop of lines 543-555 that finds nothing available,
\* during which one millisecond goes by; no other step takes time, so two
\* readings of the clock that follow each other differ by at most 1
IdlePoll ==
    /\ pc = "rd_read"
    /\ rxBuf = << >>
    /\ millis' = millis + 1
    /\ pc' = "rd_char"
    /\ UNCHANGED << clientVars, pinVars, chanVars, argVars, request, recvVars, ret,
                    histVars, begun, script, ticks, chunks, peer, report >>

\* the answer arrives in one burst, at any moment of the wait
ArriveWhole ==
    /\ inFlight # << >>
    /\ pc \in { "rd_read", "rd_char" }
    /\ rxBuf' = rxBuf \o inFlight
    /\ inFlight' = << >>
    /\ UNCHANGED << clientVars, pinVars, portOpen, txLog, wireReq, millis, pc,
                    argVars, request, recvVars, ret, histVars, begun, script, ticks,
                    chunks, peer, report >>

\* the calls followed millisecond by millisecond: a read and a write of one
\* register and receiveData alone at 9600 baud (windows of 25, 29 and 7 ms),
\* and receiveData for 20 bytes at 300 baud (window of 2333 ms, longer than the
\* total timeout)
PollCases == LiveCases

PollInit == Init /\ _serialPort /\ << _baud, script >> \in PollCases

PollNext ==
    \/ Begin
    \/ readRunningState
    \/ writeControlCommand
    \/ receiveData
    \/ ClientStep
    \/ Return
    \/ SlaveRespond
    \/ ArriveWhole
    \/ IdlePoll

PollSpec == PollInit /\ [][PollNext]_vars

(***************************************************************************)
(* The engine on every register count                                       *)
(***************************************************************************)
\* the largest count asked for, past both limits of the engine
MaxCount == 130

\* readParameters and writeParameters called with each count from 0 up
CountCalls ==
    { << Call("readParameters", << 16, 0 >>, FALSE, n, 0) >> : n \in 0..MaxCount }
    \cup { << Call("writeParameters", << 32, 0 >>, FALSE, n, 5) >> : n \in 0..MaxCount }

CountInit == \E s \in CountCalls : Constructed(Cfg9600, s)

\* the slave gives the well-formed answer to the request it has received
SlaveRespondWell ==
    /\ wireReq # << >>
    /\ pc = "receiveData"
    /\ \E seed \in SlaveSeeds :
          LET vals == IF wireReq[2] = READ THEN Values(seed, RequestedCount(wireReq))
                      ELSE << >>
              frame == SlaveAnswer(wireReq, "ok", vals)
          IN  /\ inFlight' = inFlight \o frame
              /\ answer' = frame
              /\ answerKind' = "ok"
              /\ answerVals' = vals
    /\ wireReq' = << >>
    /\ UNCHANGED << clientVars, pinVars, portOpen, txLog, rxBuf, millis, pc, argVars,
                    request, recvVars, ret, argBefore, nPinWrites, nReads, nDebug,
                    nullDeref, recvBegin, stale, staleRead, begun, script, ticks,
                    peer, report, chunks >>

\* the answer arrives whole or the wait runs out
CountNext ==
    \/ Begin
    \/ readParameters
    \/ writeParameters
    \/ RpRequest
    \/ WpRequest
    \/ SdTransmit
    \/ SdWrite
    \/ SdFlush
    \/ SdReceive
    \/ RdEntry
    \/ RdWhile
    \/ RdRead
    \/ RdChar
    \/ RdReturn
    \/ RpResponse
    \/ WpResponse
    \/ Return
    \/ SlaveRespondWell
    \/ ArriveWhole
    \/ ClockAdvance

CountSpec == CountInit /\ [][CountNext]_vars

(***************************************************************************)
(* Two callers of one client.  The first caller is the call in progress of  *)
(* the sections above; the second (peer) calls writeControlCommand from      *)
(* another thread of execution.  Both run the same statements on the same   *)
(* members, pin, port and clock; each has its own locals.  The object holds *)
(* no lock, so any step of one may come between two steps of the other.     *)
(***************************************************************************)
\* everything but the shared pin, the shared port and the second caller
PeerFrame ==
    << clientVars, pinMode, portOpen, wireReq, millis, pc, argVars, request, recvVars,
       ret, histVars, begun, script, ticks, chunks, report >>

\* the command the second caller writes
PeerCommand == 6

\* lines 637-642, 705-707 and 254-313: writeControlCommand up to sendData
PeerCall ==
    /\ peer.pc = "idle"
    /\ _initialized
    /\ peer' = [peer EXCEPT !.pc = "sendData",
                            !.request = WriteRequest(_slaveAddress, 8192,
                                                     << PeerCommand >>, 1)]
    /\ UNCHANGED << PeerFrame, pinLevel, txLog, rxBuf, inFlight >>

\* line 479
PeerSdTransmit ==
    /\ peer.pc = "sendData"
    /\ pinLevel' = RS485Transmit
    /\ peer' = [peer EXCEPT !.pc = "sd_write"]
    /\ UNCHANGED << PeerFrame, txLog, rxBuf, inFlight >>

\* line 483: write(data, length) hands the bytes to the port one after the
\* other; the other caller may run after the first four or after all of them
PeerSdWrite ==
    /\ peer.pc = "sd_write"
    /\ \E k \in { 4, Len(peer.request) - peer.sent } :
          /\ peer.sent + k <= Len(peer.request)
          /\ txLog' = txLog \o SubSeq(peer.request, peer.sent + 1, peer.sent + k)
          /\ peer' = [peer EXCEPT !.sent = @ + k,
                                  !.pc = IF peer.sent + k = Len(peer.request)
                                         THEN "sd_flush" ELSE "sd_write"]
    /\ UNCHANGED << PeerFrame, pinLevel, rxBuf, inFlight >>

\* line 484
PeerSdFlush ==
    /\ peer.pc = "sd_flush"
    /\ peer' = [peer EXCEPT !.pc = "sd_receive", !.wire = peer.request]
    /\ UNCHANGED << PeerFrame, pinLevel, txLog, rxBuf, inFlight >>

\* the second caller's sendData returning without the second write to the pin
PeerSdReceiveOmitted ==
    /\ peer.pc = "sd_receive"
    /\ peer' = [peer EXCEPT !.pc = "receiveData"]
    /\ UNCHANGED << PeerFrame, pinLevel, txLog, rxBuf, inFlight >>

\* line 487
PeerSdReceive ==
    /\ peer.pc = "sd_receive"
    /\ pinLevel' = RS485Receive
    /\ peer' = [peer EXCEPT !.pc = "receiveData"]
    /\ UNCHANGED << PeerFrame, txLog, rxBuf, inFlight >>

\* lines 511-521: the answer to a write has 8 bytes
PeerRdEntry ==
    /\ peer.pc = "receiveData"
    /\ peer' = [peer EXCEPT !.pc = "rd_while",
                            !.length = ResponseSize("write", 1),
                            !.bytesRead = 0,
                            !.lastByteTime = millis,
                            !.charTimeout = CharTimeout(_interCharTimeout,
                                                        ResponseSize("write", 1))]
    /\ UNCHANGED << PeerFrame, pinLevel, txLog, rxBuf, inFlight >>

\* lines 530-540
PeerRdWhile ==
    /\ peer.pc = "rd_while"
    /\ peer' = [peer EXCEPT
                   !.pc = IF /\ peer.bytesRead < peer.length
                             /\ ~TotalTimeoutExpired(millis - peer.lastByteTime,
                                                     _totalTimeout)
                          THEN "rd_read" ELSE "rd_return"]
    /\ UNCHANGED << PeerFrame, pinLevel, txLog, rxBuf, inFlight >>

\* lines 543-555
PeerRdRead ==
    /\ peer.pc = "rd_read"
    /\ LET k == Min(Len(rxBuf), peer.length - peer.bytesRead)
       IN  /\ peer' = [peer EXCEPT
                          !.pc = "rd_char",
                          !.buffer = @ \o SubSeq(rxBuf, 1, k),
                          !.bytesRead = @ + k,
                          !.lastByteTime = IF k > 0 THEN millis ELSE @]
           /\ rxBuf' = SubSeq(rxBuf, k + 1, Len(rxBuf))
    /\ UNCHANGED << PeerFrame, pinLevel, txLog, inFlight >>

\* lines 558-572
PeerRdChar ==
    /\ peer.pc = "rd_char"
    /\ peer' = [peer EXCEPT
                   !.pc = IF CharTimeoutExpired(peer.bytesRead, peer.length, Len(rxBuf),
                                                millis - peer.lastByteTime,
                                                peer.charTimeout)
                          THEN "rd_return" ELSE "rd_while"]
    /\ UNCHANGED << PeerFrame, pinLevel, txLog, rxBuf, inFlight >>

\* line 595
PeerRdReturn ==
    /\ peer.pc = "rd_return"
    /\ peer' = [peer EXCEPT !.pc = "returned",
                            !.received = (peer.bytesRead = peer.length)]
    /\ UNCHANGED << PeerFrame, pinLevel, txLog, rxBuf, inFlight >>

\* writeParameters, lines 337-352; the second caller calls once
PeerWpResponse ==
    /\ peer.pc = "returned"
    /\ peer' = [peer EXCEPT
                   !.pc = "done",
                   !.ret = /\ peer.received
                           /\ validateModbusResponse(peer.buffer, 8, _slaveAddress,
                                                     peer.request[2])]
    /\ UNCHANGED << PeerFrame, pinLevel, txLog, rxBuf, inFlight >>

\* the slave gives the well-formed answer to the second caller's request
PeerSlaveRespond ==
    /\ peer.wire # << >>
    /\ peer.pc = "receiveData"
    /\ inFlight' = inFlight \o WriteAnswer(peer.wire)
    /\ peer' = [peer EXCEPT !.wire = << >>, !.answer = WriteAnswer(peer.wire)]
    /\ UNCHANGED << PeerFrame, pinLevel, txLog, rxBuf >>

\* the first caller reads the running state
PairCalls == { << Call("readRunningState", NoReg, FALSE, 1, 0) >> }

PairInit == \E s \in PairCalls : Constructed(Cfg9600, s)

PairNext ==
    \/ Begin
    \/ readRunningState
    \/ RpRequest
    \/ SdTransmit
    \/ SdWrite
    \/ SdFlush
    \/ SdReceive
    \/ RdEntry
    \/ RdWhile
    \/ RdRead
    \/ RdChar
    \/ RdReturn
    \/ RpResponse
    \/ Return
    \/ SlaveRespondWell
    \/ ArriveWhole
    \/ ClockAdvance
    \/ PeerCall
    \/ PeerSdTransmit
    \/ PeerSdWrite
    \/ PeerSdFlush
    \/ PeerSdReceive
    \/ PeerRdEntry
    \/ PeerRdWhile
    \/ PeerRdRead
    \/ PeerRdChar
    \/ PeerRdReturn
    \/ PeerWpResponse
    \/ PeerSlaveRespond

PairSpec == PairInit /\ [][PairNext]_vars

(***************************************************************************)
(* The three wrappers of fixed registers                                    *)
(***************************************************************************)
ControlCommands ==
    { FORWARD_RUN_COMMAND, REVERSE_RUN_COMMAND, FORWARD_RUN_JOG_COMMAND,
      REVERSE_RUN_JOG_COMMAND, FREE_STOP_COMMAND, DECELERATE_STOP_COMMAND,
      FAULT_RESET_COMMAND }

\* the fault code and the running state asked for with and without a place to
\* put them, and each command written
FixedCalls ==
    { << Call("readFaultDescription", NoReg, z, 1, 0) >> : z \in BOOLEAN }
    \cup { << Call("readRunningState", NoReg, z, 1, 0) >> : z \in BOOLEAN }
    \cup { << Call("writeControlCommand", NoReg, FALSE, 1, c) >> : c \in ControlCommands }

FixedInit == \E c \in { Cfg9600, Cfg300 }, s \in FixedCalls : Constructed(c, s)

FixedNext ==
    \/ Begin
    \/ readFaultDescription
    \/ readRunningState
    \/ writeControlCommand
    \/ RpRequest
    \/ WpRequest
    \/ SdTransmit
    \/ SdWrite
    \/ SdFlush
    \/ SdReceive
    \/ RdEntry
    \/ RdWhile
    \/ RdRead
    \/ RdChar
    \/ RdReturn
    \/ RpResponse
    \/ WpResponse
    \/ Return
    \/ SlaveRespond
    \/ ArriveWhole
    \/ ClockAdvance

FixedSpec == FixedInit /\ [][FixedNext]_vars

(***************************************************************************)
(* begin on every kind of client                                            *)
(***************************************************************************)
\* the usual baud rates of a serial line
BaudRates == { 300, 1200, 2400, 4800, 9600, 19200, 38400, 57600, 115200 }

\* the constructor's arguments: both addresses, each port given or not, each
\* baud rate, the pin at either level before begin
BeginConfigs ==
    [addr : SlaveAddresses, port : BOOLEAN, debug : BOOLEAN, baud : BaudRates,
     pin : { RS485Transmit, RS485Receive }]

\* after begin the application asks for the fault code with a null pointer
BeginCalls == { << Call("readFaultDescription", NoReg, TRUE, 1, 0) >> }

BeginInit == \E c \in BeginConfigs, s \in BeginCalls : Constructed(c, s)

BeginNext ==
    \/ Begin
    \/ readFaultDescription
    \/ Return

BeginSpec == BeginInit /\ [][BeginNext]_vars

\* HS321.h, line 192
isInitialized == _initialized

(***************************************************************************)
(* Properties                                                               *)
(***************************************************************************)
PublicOps ==
    { "readFaultDescription", "readRunningState", "writeControlCommand",
      "readSingleGroupParameter", "readParametersInGroups",
      "writeSingleGroupParameter", "writeParametersInGroups",
      "checkCommunicationSettings" }

\* readParameters has returned to its caller: the call is over, or
\* checkCommunicationSettings is about to print what it read
ReadReturned ==
    /\ Core(op) = "read"
    /\ \/ pc = "ccs_print"
       \/ pc = "done" /\ op # "checkCommunicationSettings"

\* the CRC carried by the last two bytes of frame r, low byte first, is the
\* CRC16-Modbus of the bytes before them
CrcMatches(r) ==
    /\ Len(r) >= 3
    /\ (r[Len(r)] * 256) + r[Len(r) - 1] = calculateCRC(Ptr(r), Len(r) - 2)

\* The CRC16 of Modbus RTU computed one bit at a time, as the protocol defines
\* it: register preset to 0xFFFF; each bit of the message, low bit of each byte
\* first, is compared with the low bit of the register, the register is shifted
\* right, and the polynomial 0xA001 is XORed in when the two bits differed
PolyXor(x) ==
    x + 32768
      + (IF ((x \div 8192) % 2) = 1 THEN 0 - 8192 ELSE 8192)
      + (IF (x % 2) = 1 THEN 0 - 1 ELSE 1)

MessageBit(bytes, k) == (bytes[(k \div 8) + 1] \div (2 ^ (k % 8))) % 2

RECURSIVE BitFold(_, _, _, _)
BitFold(bytes, lo, hi, reg) ==
    IF lo > hi THEN reg
    ELSE IF lo = hi
         THEN IF (reg % 2) # MessageBit(bytes, lo) THEN PolyXor(reg \div 2)
              ELSE reg \div 2
    ELSE Then(BitFold(bytes, lo, (lo + hi) \div 2, reg),
              LAMBDA left : BitFold(bytes, ((lo + hi) \div 2) + 1, hi, left))

ModbusCRC16(bytes) ==
    Then(bytes, LAMBDA m : BitFold(m, 0, (8 * Len(m)) - 1, 65535))

\* frame r ends with the CRC16 of all the bytes before its last two, low byte
\* first
EndsWithCRC(r) ==
    /\ Len(r) >= 3
    /\ LET crc == ModbusCRC16(SubSeq(r, 1, Len(r) - 2))
       IN  r[Len(r) - 1] = crc % 256 /\ r[Len(r)] = crc \div 256

\* C1: over a channel that delivers no byte at all, receiveData returns false
\* only once more than the total timeout (2000 ms) has passed since it began,
\* never earlier.
C1_SilentChannelWaitsTotalTimeout ==
    (pc = "returned" /\ ~buffer.null /\ length > 0 /\ nReads = 0 /\ rxBuf = << >>)
        => (~received /\ millis - recvBegin > _totalTimeout)

\* C2: a multi-register write of 1 to 123 registers is transmitted; a write of
\* 124 or more returns false before anything is sent.
C2_WriteCountBounds ==
    (pc = "done" /\ Core(op) = "write" /\ _initialized /\ ~argBefore.null)
        => /\ numberRegisters \in 1..123 => (txLog # << >> /\ nPinWrites = 2)
           /\ numberRegisters >= 124
                 => (~ret /\ txLog = << >> /\ nPinWrites = 0 /\ nReads = 0)

\* C3: a read of 1 to 125 registers transmits the 8-byte request of function
\* 0x03 (address, 0x03, start high, start low, count high, count low, CRC low,
\* CRC high); a read of 126 or more returns false and nothing is transmitted at
\* any point of the call.
C3_ReadCountBounds ==
    (Core(op) = "read" /\ pc # "idle" /\ _initialized /\ ~argBefore.null)
        => /\ (pc = "done" /\ numberRegisters \in 1..125)
                 => /\ Len(txLog) = 8
                    /\ SubSeq(txLog, 1, 6) =
                          << slaveAddress, 3, startAddress \div 256,
                             startAddress % 256, numberRegisters \div 256,
                             numberRegisters % 256 >>
                    /\ CrcMatches(txLog)
                    /\ nPinWrites = 2
           /\ numberRegisters >= 126
                 => /\ txLog = << >> /\ nPinWrites = 0 /\ nReads = 0
                    /\ pc = "done" => ~ret

\* a read of exactly 125 registers has been transmitted
C3_Read125Transmitted ==
    /\ pc = "done" /\ Core(op) = "read"
    /\ numberRegisters = 125
    /\ Len(txLog) = 8 /\ txLog[5] = 0 /\ txLog[6] = 125

\* C4: once begin has succeeded the direction pin is an output; it drives the
\* transmit level only from the start of sendData until write and flush are
\* done, and the receive level at every other time, whatever way the call ends.
C4_PinReceiveOutsideSend ==
    _initialized
        => /\ pinMode = "OUTPUT"
           /\ pc \in { "sd_write", "sd_flush", "sd_receive" } => pinLevel = RS485Transmit
           /\ pc \notin { "sd_write", "sd_flush", "sd_receive" } => pinLevel = RS485Receive

\* a call that transmitted its request and then failed has ended
C4_FailedAfterSend ==
    /\ pc = "done" /\ nPinWrites = 2 /\ txLog # << >> /\ ~ret
    /\ pinLevel = RS485Receive

\* C5: a read or write call takes no byte that an earlier transaction left in
\* the channel as part of its own response.
C5_StaleBytesNotConsumed ==
    (pc = "done" /\ Core(op) \in { "read", "write" }) => staleRead = 0

\* C6: when the bytes received for a read of n registers are the well-formed
\* answer carrying v1..vn (address, 0x03, byte count 2n, each value high byte
\* first, valid CRC), the read returns true and the caller's buffer holds
\* exactly v1..vn.
C6_WellFormedReadDecoded ==
    (/\ ReadReturned
     /\ numberRegisters >= 1
     /\ Len(answerVals) = numberRegisters
     /\ nReads = 5 + (2 * numberRegisters)
     /\ buffer.mem = ReadAnswer(slaveAddress, answerVals))
        => (ret /\ arrayValues.mem = answerVals)

\* the answer 01 03 02 00 64 B9 AF to a read of one register gave the value 100
C6_Read100 ==
    /\ pc = "done" /\ op = "readRunningState"
    /\ buffer.mem = << 1, 3, 2, 0, 100, 185, 175 >>
    /\ ret /\ arrayValues.mem = << 100 >>

\* C7: a read returns true exactly when the buffer is non-null, the count is
\* in 1..125, exactly 5 + 2n bytes were received, byte 0 is the slave address,
\* byte 1 is 0x03, byte 2 is 2n and the CRC in the last two bytes (low byte
\* first) is that of the bytes before them.
C7_ReadTrueIff ==
    ReadReturned
        => (ret <=> /\ ~argBefore.null
                    /\ numberRegisters \in 1..125
                    /\ nReads = 5 + (2 * numberRegisters)
                    /\ Len(buffer.mem) = 5 + (2 * numberRegisters)
                    /\ buffer.mem[1] = slaveAddress
                    /\ buffer.mem[2] = 3
                    /\ buffer.mem[3] = 2 * numberRegisters
                    /\ CrcMatches(buffer.mem))

\* a read failed on the byte count alone: everything else was right
C7_OnlyByteCountWrong ==
    /\ ReadReturned /\ ~ret
    /\ ~argBefore.null /\ numberRegisters \in 1..125
    /\ nReads = 5 + (2 * numberRegisters)
    /\ buffer.mem[1] = slaveAddress /\ buffer.mem[2] = 3
    /\ buffer.mem[3] # 2 * numberRegisters
    /\ CrcMatches(buffer.mem)

\* C8: a write returns true exactly when its request was transmitted, exactly
\* 8 bytes were received, byte 0 is the slave address, byte 1 is the function
\* sent (0x06 for one register, 0x10 for several) and the CRC is valid; the
\* four bytes in between are not compared with the request.
C8_WriteTrueIff ==
    (pc = "done" /\ Core(op) = "write")
        => (ret <=> /\ txLog # << >>
                    /\ nReads = 8
                    /\ Len(buffer.mem) = 8
                    /\ buffer.mem[1] = slaveAddress
                    /\ buffer.mem[2] = (IF numberRegisters = 1 THEN 6 ELSE 16)
                    /\ CrcMatches(buffer.mem))

\* a write returned true on an answer that is not the echo of its request
C8_AcceptedWithoutEcho ==
    /\ pc = "done" /\ Core(op) = "write" /\ ret
    /\ answerKind = "other"
    /\ SubSeq(buffer.mem, 3, 6) # SubSeq(request, 3, 6)

\* C9: with a null buffer or a count (length) of zero, readParameters,
\* writeParameters and receiveData return false: the pin is not written, no
\* byte is sent or read, and the caller's buffer is left as it was.
C9_NullOrZeroRejected ==
    (/\ pc # "idle"
     /\ Core(op) \in { "read", "write", "recv" }
     /\ argBefore.null \/ numberRegisters = 0)
        => /\ txLog = << >> /\ nPinWrites = 0 /\ nReads = 0
           /\ arrayValues = argBefore
           /\ pc = "done" => ~ret

\* readParameters was called with a buffer and a count of zero, and returned
C9_ZeroCountReturned ==
    /\ pc = "done" /\ op = "readParameters"
    /\ ~argBefore.null /\ numberRegisters = 0 /\ ~ret

\* C10: on a client that is not initialized (begin not called, or called
\* without a serial port) every public operation returns false at once: the
\* pin is not written and no byte is sent or read.
C10_UninitializedRefuses ==
    (~_initialized /\ pc # "idle")
        => /\ op \in PublicOps
           /\ pc = "done" /\ ~ret
           /\ txLog = << >> /\ nPinWrites = 0 /\ nReads = 0
           /\ pinMode = "INPUT"

\* checkCommunicationSettings returned on a client whose begin found no port
C10_RefusedAfterBeginWithoutPort ==
    /\ pc = "done" /\ op = "checkCommunicationSettings"
    /\ begun /\ ~_serialPort /\ ~_initialized /\ ~ret

\* C11: every request handed to sendData, for a read or a write of any accepted
\* count, ends with the CRC16 of all the bytes before its last two, low byte
\* first: no byte of the frame is left out of the CRC.
C11_RequestEndsWithCRC ==
    pc = "sendData" => EndsWithCRC(request)

\* the longest request, a write of 122 registers, is handed to sendData
C11_LongestRequestSent ==
    /\ pc = "sendData" /\ Core(op) = "write"
    /\ numberRegisters = 122 /\ Len(request) = 253 /\ request[2] = 16

\* C12: whenever a read or write call returns true, the bytes it received end
\* with the CRC16, low byte first, of all the bytes before the last two; no
\* call returns true on a response whose CRC does not match.
C12_TrueOnlyOnMatchingCRC ==
    (pc = "done" /\ Core(op) \in { "read", "write" } /\ ret)
        => (nReads >= 4 /\ Len(buffer.mem) = nReads /\ EndsWithCRC(buffer.mem))

\* a read of three registers returned true
C12_ReadOfThreeAccepted ==
    /\ pc = "done" /\ op = "readParametersInGroups" /\ ret
    /\ numberRegisters = 3 /\ nReads = 11 /\ EndsWithCRC(buffer.mem)

\* C13: every read or write call ends: whatever bytes arrive and whenever they
\* do (none, part of a frame, one byte at a time with gaps, more than
\* expected), as long as the clock keeps advancing, receiveData returns and
\* the call comes to its return.
C13_CallTerminates ==
    (pc \notin { "idle", "done" }) ~> (pc = "done")

\* a call ended in failure after part of a frame had arrived
C13_EndedOnPartialFrame ==
    /\ pc = "done" /\ ~ret
    /\ nReads > 0 /\ nReads < length /\ millis > recvBegin

\* a direct call of validateModbusResponse has returned
ValidateReturned == pc = "done" /\ op = "validateModbusResponse"

\* the first responseSize bytes of the response given to validateModbusResponse
Given == SubSeq(arrayValues.mem, 1, Min(numberRegisters, Len(arrayValues.mem)))

\* frame has the address and the function expected and ends with the reference
\* CRC of the bytes before it, low byte first
WellFormed(frame, sa, fn) ==
    /\ Len(frame) >= 4
    /\ frame[1] = sa
    /\ frame[2] = fn
    /\ EndsWithCRC(frame)

\* C14: validateModbusResponse returns false when the size is below 4, when the
\* first byte is not the expected address, when the second byte is the expected
\* function with the high bit set, when the second byte is not the expected
\* function, and when the last two bytes are not the CRC of the bytes before
\* them; it returns true exactly when none of these holds.
C14_ValidateTrueIff ==
    ValidateReturned =>
        (ret <=> ~(\/ numberRegisters < 4
                   \/ Given[1] # slaveAddress
                   \/ Given[2] = (startAddress % 128) + 128
                   \/ Given[2] # startAddress
                   \/ ~EndsWithCRC(Given)))

\* an exception answer whose address and CRC are right is rejected
C14_ExceptionAloneRejected ==
    /\ ValidateReturned
    /\ ~ret
    /\ numberRegisters = 8
    /\ Given[1] = slaveAddress
    /\ Given[2] = startAddress + 128
    /\ EndsWithCRC(Given)

\* C15: validateModbusResponse accepts every frame that has the expected
\* address and function and ends with the CRC of the bytes before it, low byte
\* first, and rejects every frame that differs from such a frame in one bit,
\* in whichever byte the bit is.
C15_AcceptsGoodRejectsOneBitOff ==
    ValidateReturned =>
        /\ WellFormed(Given, slaveAddress, startAddress) => ret
        /\ (\E k \in 0..((8 * Len(Given)) - 1) :
                WellFormed(FlipBit(Given, k), slaveAddress, startAddress)) => ~ret

\* a frame whose only fault is the top bit of its last byte is rejected
C15_FlippedLastBitRejected ==
    /\ ValidateReturned
    /\ ~ret
    /\ numberRegisters = 8
    /\ WellFormed(FlipBit(Given, 63), slaveAddress, startAddress)

\* a direct call of calculateCRC has returned
CrcReturned == pc = "done" /\ op = "calculateCRC"

\* C16: for bytes that exist and a length from 1 to 255, calculateCRC is the
\* reference Modbus CRC16 of the first length bytes, whatever happened before
\* the call, and 01 03 00 00 00 01 gives 0x0A84.
C16_CrcIsReference ==
    (CrcReturned /\ ~arrayValues.null /\ numberRegisters \in 1..255) =>
        /\ ret = ModbusCRC16(SubSeq(arrayValues.mem, 1, numberRegisters))
        /\ (SubSeq(arrayValues.mem, 1, numberRegisters) = << 1, 3, 0, 0, 0, 1 >>) => ret = 2692

\* the CRC of the 255 bytes 1, 2, ..., 255 was computed
C16_LongestInputComputed ==
    /\ CrcReturned
    /\ numberRegisters = 255
    /\ arrayValues.mem[255] = 255
    /\ arrayValues.mem[1] = 1
    /\ ret = 34141

C18_ReadRequestLayout ==
    (Core(op) = "read" /\ txLog # << >>) =>
        /\ numberRegisters \in 1..125
        /\ Len(txLog) = 8
        /\ txLog[1] = slaveAddress
        /\ txLog[2] = 3
        /\ (txLog[3] * 256) + txLog[4] = startAddress
        /\ (txLog[5] * 256) + txLog[6] = numberRegisters
        /\ pc = "sd_flush" => (txLog[8] * 256) + txLog[7] = ModbusCRC16(SubSeq(txLog, 1, 6))

\* slave 1 was asked for 3 registers from 0x7005
C18_ReadOfD5Transmitted ==
    /\ op = "readParametersInGroups"
    /\ startAddress = 28677
    /\ txLog = << 1, 3, 112, 5, 0, 3, 15, 10 >>

\* C19: the frame an accepted write transmits is, for one register, the 8
\* bytes address, 0x06, register address high then low, value high then low,
\* CRC low then high; for more than one register, the 9 + 2 * count bytes
\* address, 0x10, start high then low, count high then low, 2 * count, the
\* values in array order each high byte first, CRC low then high (the CRC is
\* compared as the frame leaves). 0x06 is used only for one register and 0x10
\* only for more than one.
C19_WriteRequestLayout ==
    (Core(op) = "write" /\ txLog # << >>) =>
        /\ txLog[1] = slaveAddress
        /\ (txLog[3] * 256) + txLog[4] = startAddress
        /\ pc = "sd_flush" => EndsWithCRC(txLog)
        /\ IF numberRegisters = 1
           THEN /\ Len(txLog) = 8
                /\ txLog[2] = 6
                /\ (txLog[5] * 256) + txLog[6] = argBefore.mem[1]
           ELSE /\ numberRegisters > 1
                /\ Len(txLog) = 9 + (2 * numberRegisters)
                /\ txLog[2] = 16
                /\ (txLog[5] * 256) + txLog[6] = numberRegisters
                /\ txLog[7] = 2 * numberRegisters
                /\ \A i \in 1..numberRegisters :
                      (txLog[6 + (2 * i)] * 256) + txLog[7 + (2 * i)] = argBefore.mem[i]

\* the values 0x0005 and 0x0108 were written from 0x7005 on slave 1
C19_WriteOfTwoTransmitted ==
    /\ op = "writeParametersInGroups"
    /\ numberRegisters = 2
    /\ txLog = << 1, 16, 112, 5, 0, 2, 4, 0, 5, 1, 8, 70, 5 >>

\* a step of a public call: sendData is entered only from the building of the
\* request, receiveData only from sendData, and once receiveData has
\* returned the call only ends
OneAttemptStep ==
    op \in PublicOps =>
        /\ (pc' = "sendData" /\ pc # "sendData")
              => pc \in { "readParameters", "writeParameters" }
        /\ (pc' = "receiveData" /\ pc # "receiveData") => pc = "sd_receive"
        /\ pc \in { "returned", "ccs_print", "done" }
              => pc' \in { "returned", "ccs_print", "done", "idle" }

\* C20: a call of a public operation transmits its request at most once and
\* calls receiveData at most once, whatever the outcome: after a failed
\* receive nothing more is sent and nothing more is read.
C20_NoRetry ==
    /\ [](op \in PublicOps => (txLog \in { << >>, request } /\ nPinWrites <= 2))
    /\ [][OneAttemptStep]_vars

\* a write has returned false after its only request and a timed out receive
C20_FailedAfterOneAttempt ==
    /\ pc = "done"
    /\ op = "writeControlCommand"
    /\ ~ret
    /\ txLog = request
    /\ nPinWrites = 2
    /\ ~received
    /\ nReads = 0

\* the wrappers that take a group and a sub-index
GroupOps ==
    { "readSingleGroupParameter", "readParametersInGroups",
      "writeSingleGroupParameter", "writeParametersInGroups" }

\* a group wrapper that passes its checks hands the engine the address built
\* from its group and sub-index
GroupCallStep ==
    (pc = "idle" /\ pc' \in { "readParameters", "writeParameters" } /\ op' \in GroupOps) =>
        startAddress' = (Head(script).a[1] * 256) + Head(script).a[2]

\* C21: for every group (0..13 and 112) and every sub-index 0..255,
\* buildParameterAddress is group * 256 + sub-index, a 16-bit value from
\* which the group and the sub-index are read back (so distinct pairs give
\* distinct addresses), and the group wrappers send the group in byte 2 and
\* the sub-index in byte 3 of the request.
C21_GroupAddress ==
    /\ []((pc = "done" /\ op = "buildParameterAddress") =>
            /\ ret = (startAddress * 256) + numberRegisters
            /\ ret \in 0..65535
            /\ ret \div 256 = startAddress
            /\ ret % 256 = numberRegisters)
    /\ []((op \in GroupOps /\ txLog # << >>) =>
            (txLog[3] = startAddress \div 256 /\ txLog[4] = startAddress % 256))
    /\ [][GroupCallStep]_vars

\* the request for parameter 255 of group 13 has left with 0D FF in bytes 2..3
C21_LastGroupParameterSent ==
    /\ op = "readSingleGroupParameter"
    /\ startAddress = 3583
    /\ Len(txLog) = 8
    /\ txLog[3] = 13
    /\ txLog[4] = 255

\* C22: on a client constructed without a debug port, begin succeeds (given a
\* serial port) and no operation uses the debug port afterwards: nothing is
\* printed through it and the null pointer is not dereferenced.
C22_NoDebugPortNeverUsed ==
    ~_serialDebug =>
        /\ (begun /\ _serialPort) => _initialized
        /\ nDebug = 0
        /\ ~nullDeref

\* a read that has a caller's buffer to fill (checkCommunicationSettings reads
\* into an array of its own)
ReadIntoCallerBuffer == Core(op) = "read" /\ op # "checkCommunicationSettings"

\* C23: whenever a read returns false, for whatever reason, the caller's
\* buffer holds what it held before the call; the buffer differs from that
\* only once the call has taken the path that returns true.
C23_FalseLeavesBuffer ==
    ReadIntoCallerBuffer =>
        /\ arrayValues # argBefore => (ret /\ pc = "done")
        /\ (pc = "done" /\ ~ret) => arrayValues = argBefore

\* a read of three registers got a whole frame with a wrong CRC and returned
\* false with the buffer as it was
C23_BadCrcLeftBuffer ==
    /\ pc = "done"
    /\ op = "readParametersInGroups"
    /\ ~ret
    /\ answerKind = "crc"
    /\ received
    /\ nReads = 11
    /\ arrayValues.mem = << Garbage, Garbage, Garbage >>
    /\ arrayValues = argBefore

\* a transaction is in progress
InTransaction == Core(op) \in { "read", "write" } /\ pc \notin { "idle", "done" }

\* the positions of a transaction in their order
TransactionOrder ==
    << "sendData", "sd_write", "sd_flush", "sd_receive", "receiveData" >>

\* a step of the program: bytes are written to the channel only with the
\* direction line at transmit, all of the request at once; bytes are read from
\* it only with the line at receive, after the request has gone and the line
\* has been switched twice; and the positions of sendData follow one another
WireStep ==
    /\ (txLog' # txLog /\ txLog' # << >>) =>
          (pinLevel = RS485Transmit /\ pinLevel' = RS485Transmit /\ txLog = << >>
             /\ txLog' = request)
    /\ nReads' > nReads =>
          (pinLevel = RS485Receive /\ pinLevel' = RS485Receive
             /\ (Core(op) \in { "read", "write" } => (txLog = request /\ nPinWrites = 2)))
    /\ \A i \in 1..4 :
          (pc = TransactionOrder[i] /\ pc' # pc) => pc' = TransactionOrder[i + 1]

\* C24: in a transaction the direction line is set to transmit, then the
\* whole request is written, then flushed, then the line is set to receive,
\* and only then is the first byte read; no byte is read while the line is at
\* transmit and none is written while it is at receive.
C24_TransmitThenReceive ==
    /\ [](InTransaction =>
            /\ pc = "sendData" => (txLog = << >> /\ nReads = 0 /\ nPinWrites = 0)
            /\ pc = "sd_write" =>
                  (pinLevel = RS485Transmit /\ txLog = << >> /\ nReads = 0)
            /\ pc = "sd_flush" =>
                  (pinLevel = RS485Transmit /\ txLog = request /\ nReads = 0)
            /\ pc = "sd_receive" =>
                  (pinLevel = RS485Transmit /\ txLog = request /\ wireReq = request
                     /\ nReads = 0)
            /\ pc = "receiveData" =>
                  (pinLevel = RS485Receive /\ txLog = request /\ nReads = 0)
            /\ nReads > 0 => (pinLevel = RS485Receive /\ txLog = request))
    /\ [][WireStep]_vars

\* the first byte of the answer to a write has been read
C24_FirstByteRead ==
    /\ Core(op) = "write"
    /\ pc = "rd_char"
    /\ nReads = 1
    /\ pinLevel = RS485Receive
    /\ txLog = request
    /\ nPinWrites = 2

\* a step of receiveData: it stops waiting with bytes missing only when the
\* time since the last stored byte (or since it began) is over the total
\* timeout, or over the inter-character window with no byte available; and a
\* step that stores bytes sets the marker to the time of the step
ReceiveStep ==
    /\ (pc' = "rd_return" /\ pc # "rd_return" /\ bytesRead < length) =>
          \/ millis - lastByteTime > _totalTimeout
          \/ rxBuf = << >> /\ millis - lastByteTime > charTimeout
    /\ bytesRead' > bytesRead => lastByteTime' = millis
    /\ (bytesRead' = bytesRead /\ pc \in { "rd_while", "rd_read", "rd_char" })
          => lastByteTime' = lastByteTime

InReceiveLoop == pc \in { "rd_while", "rd_read", "rd_char", "rd_return" }

\* C26: the inter-character window of a receive of length bytes is the
\* per-character value (35,000,000 / baud, truncated) times length, divided
\* by 1000 and rounded up to a whole millisecond; so it is never 0 when the
\* per-character value is not.
C26_CharTimeoutRoundsUp ==
    InReceiveLoop =>
        /\ charTimeout = (((35000000 \div _baud) * length) + 999) \div 1000
        /\ (35000000 \div _baud) > 0 => charTimeout >= 1

\* the shorter of the two waits of the running receive
ShorterWait == IF charTimeout < _totalTimeout THEN charTimeout ELSE _totalTimeout

\* a step of receiveData with the clock read every millisecond: it stops
\* waiting with bytes missing on the first millisecond past the shorter wait,
\* and it does so through the total timeout only when the inter-character
\* window is not the shorter one
GiveUpStep ==
    (pc' = "rd_return" /\ pc # "rd_return" /\ bytesRead < length) =>
        /\ millis - lastByteTime = ShorterWait + 1
        /\ pc = "rd_while" => charTimeout >= _totalTimeout

StoreStep ==
    nReads' > nReads =>
        /\ nReads' - nReads <= length - bytesRead
        /\ bytesRead' = bytesRead + (nReads' - nReads)
        /\ Len(rxBuf') = Len(rxBuf) - (nReads' - nReads)
        /\ buffer'.mem = buffer.mem \o SubSeq(rxBuf, 1, nReads' - nReads)

\* C28: in every state of receiveData bytesRead <= length, the bytes stored
\* are at indices 0..length-1 of the buffer, and bytes waiting beyond the
\* expected length are left in the channel, even when it holds more than
\* expected.
C28_NeverPastLength ==
    /\ []((pc \in { "rd_while", "rd_read", "rd_char", "rd_return", "returned" }
              /\ ~buffer.null /\ length > 0) =>
            /\ bytesRead <= length
            /\ Len(buffer.mem) = bytesRead
            /\ nReads = bytesRead)
    /\ [][StoreStep]_vars

\* an answer one byte too long: the 8 bytes expected were stored and the
\* ninth is still in the channel
C28_ExtraByteLeft ==
    /\ pc = "returned"
    /\ answerKind = "long"
    /\ length = 8
    /\ bytesRead = 8
    /\ Len(answer) = 9
    /\ rxBuf = << 0 >>
    /\ inFlight = << >>

\* a read has received a whole frame and has checked it
ReadChecked == ReadReturned /\ received /\ nReads = length

\* C29: on a received frame of 5 + 2 * count bytes, the checks readParameters
\* makes itself accept exactly the frames that validateModbusResponse accepts
\* for function 0x03 and whose byte-count field is 2 * count.
C29_InlineChecksAsValidate ==
    ReadChecked =>
        /\ length = 5 + (2 * numberRegisters)
        /\ (pc = "ccs_print" \/ ret) <=>
              (/\ validateModbusResponse(buffer.mem, length, slaveAddress, READ)
               /\ buffer.mem[3] = 2 * numberRegisters)

\* a frame of the right length and CRC that answers function 0x04 was
\* received and refused
C29_OtherFunctionRefused ==
    /\ ReadChecked
    /\ pc = "done"
    /\ ~ret
    /\ answerKind = "otherfn"
    /\ buffer.mem[2] = 4
    /\ EndsWithCRC(buffer.mem)

\* C30: every request a public operation transmits has in byte 0 the slave
\* address the client was constructed with, which never changes, and a
\* public operation returns true only on a response whose byte 0 is that
\* address.
C30_OnlyOwnSlave ==
    /\ []((op \in PublicOps /\ txLog # << >>) => txLog[1] = _slaveAddress)
    /\ []((op \in PublicOps /\ pc \notin { "idle", "done" }) =>
            slaveAddress = _slaveAddress)
    /\ []((op \in PublicOps /\ pc \in { "done", "ccs_print" } /\ ret) =>
            (nReads = length /\ buffer.mem[1] = _slaveAddress))
    /\ [][_slaveAddress' = _slaveAddress]_vars

\* slave 247 was sent a command and its answer was accepted
C30_Slave247Answered ==
    /\ pc = "done"
    /\ op = "writeControlCommand"
    /\ ret
    /\ _slaveAddress = 247
    /\ txLog[1] = 247
    /\ buffer.mem[1] = 247

(***************************************************************************)
(* The members of the client across calls                                   *)
(***************************************************************************)
\* a step that is not begin leaves the members and the mode of the pin alone
MembersKeptStep == (begun' = begun) => UNCHANGED << clientVars, pinMode >>

\* the client as begin leaves it when it has a serial port
ReadyAsBegun ==
    /\ _initialized
    /\ _totalTimeout = 2000
    /\ _interCharTimeout = InterCharTimeout(_baud)
    /\ pinMode = "OUTPUT"
    /\ pinLevel = RS485Receive

\* C31: no step of a read or write operation, whatever its outcome, changes
\* the slave address, the ports, the baud rate, the two timeouts, the flag
\* _initialized or the mode of the direction pin; between two calls, and at
\* the end of a call, a client that has begun with a port is as begin left
\* it, the pin at receive level, so a call that follows a failed call starts
\* from the client state of a first call.
C31_CallsKeepMembers ==
    /\ [][MembersKeptStep]_vars
    /\ []((begun /\ _serialPort /\ pc \in { "idle", "done" }) => ReadyAsBegun)

\* a second call entered while the whole 8-byte answer to the first, which
\* needed 7 bytes and so failed, is still unread
C31_SecondCallAfterFailure ==
    /\ pc = "readParameters"
    /\ op = "readFaultDescription"
    /\ stale = 8
    /\ _slaveAddress = 1
    /\ _baud = 9600
    /\ _totalTimeout = 2000
    /\ _interCharTimeout = 3645
    /\ _initialized

(***************************************************************************)
(* begin                                                                    *)
(***************************************************************************)
\* what the step of begin does, with and without a serial port
BeginStep ==
    (~begun /\ begun') =>
        IF _serialPort
        THEN /\ portOpen'
             /\ pinMode' = "OUTPUT"
             /\ pinLevel' = RS485Receive
             /\ _totalTimeout' = 2000
             /\ _interCharTimeout' = 35000000 \div _baud
             /\ _initialized'
        ELSE /\ ~_initialized'
             /\ UNCHANGED << pinVars, chanVars, _totalTimeout, _interCharTimeout >>
             /\ nDebug' = nDebug + (IF _serialDebug THEN 1 ELSE 0)

\* C32: begin on a client with a serial port opens the port, makes the pin an
\* output at receive level, sets _totalTimeout to 2000 whatever the baud rate
\* and _interCharTimeout to 35,000,000 / baud truncated, and isInitialized()
\* is true afterwards; without a serial port it leaves the pin and the serial
\* channel alone, prints at most the one debug message, and isInitialized()
\* stays false.
C32_BeginConfigures ==
    /\ [][BeginStep]_vars
    /\ [](begun => (isInitialized <=> _serialPort))
    /\ [](~begun => ~isInitialized)

\* begun at 57600 baud, where the quotient 607.6 is cut to 607
C32_BegunAt57600 ==
    /\ begun
    /\ _serialPort
    /\ _baud = 57600
    /\ _interCharTimeout = 607
    /\ _totalTimeout = 2000
    /\ pinMode = "OUTPUT"
    /\ pinLevel = RS485Receive
    /\ isInitialized

(***************************************************************************)
(* Lengths and byte counts held in one byte                                 *)
(***************************************************************************)
\* a value that a uint8_t holds as it is
FitsByte(x) == x \in 0..255

\* C33: once the engine has accepted the count and built its request, every
\* length it passes to calculateCRC, whose length parameter has 8 bits, is
\* between 1 and 255: 6 for a read request, the request length minus 2 for a
\* write request, the response length minus 2, which is 3 + 2 * count and at
\* most 253, for a read, and 6 for the answer to a write; the byte count
\* 2 * count stored in byte 6 of a write request, and compared with byte 2 of
\* the answer to a read, is below 256.
C33_LengthsFitOneByte ==
    /\ (Core(op) = "read" /\ request # << >>) =>
           /\ Len(request) - 2 = 6
           /\ FitsByte(2 * numberRegisters)
           /\ ResponseSize("read", numberRegisters) - 2 = 3 + (2 * numberRegisters)
           /\ ResponseSize("read", numberRegisters) - 2 \in 1..253
    /\ (Core(op) = "read" /\ pc = "returned") =>
           /\ length - 2 = 3 + (2 * numberRegisters)
           /\ length - 2 \in 1..253
    /\ (Core(op) = "write" /\ request # << >>) =>
           /\ Len(request) - 2 \in 1..255
           /\ numberRegisters > 1 =>
                  /\ FitsByte(2 * numberRegisters)
                  /\ request[7] = 2 * numberRegisters
                  /\ Len(request) - 2 = 7 + (2 * numberRegisters)
    /\ (Core(op) = "write" /\ pc = "returned") => length - 2 = 6

\* a read of 125 registers whose 255-byte answer passed the CRC taken over
\* 253 bytes
C33_Read125Checked ==
    /\ pc = "done"
    /\ op = "readParameters"
    /\ numberRegisters = 125
    /\ length = 255
    /\ nReads = 255
    /\ ret

(***************************************************************************)
(* Two callers at once                                                      *)
(***************************************************************************)
\* the positions inside sendData after the pin has gone to transmit, and the
\* positions inside the loop of receiveData
SendingPcs == { "sd_write", "sd_flush", "sd_receive" }
ReceivingPcs == { "rd_while", "rd_read", "rd_char", "rd_return" }

\* the direction line is at transmit level while a caller is in its receive loop
TransmitDuringReceive ==
    /\ pinLevel = RS485Transmit
    /\ (pc \in ReceivingPcs \/ peer.pc \in ReceivingPcs)

\* the first caller's request went out between two pieces of the second's
FramesInterleaved ==
    /\ peer.pc = "sd_write"
    /\ peer.sent > 0
    /\ request # << >>
    /\ txLog = SubSeq(peer.request, 1, peer.sent) \o request

\* a caller holds, as the start of its response, bytes of the answer the slave
\* gave to the other caller's request
ForeignBytesConsumed ==
    \/ /\ Len(buffer.mem) >= 2
       /\ Len(buffer.mem) <= Len(peer.answer)
       /\ buffer.mem = SubSeq(peer.answer, 1, Len(buffer.mem))
    \/ /\ Len(peer.buffer) >= 2
       /\ Len(peer.buffer) <= Len(answer)
       /\ peer.buffer = SubSeq(answer, 1, Len(peer.buffer))

\* C34: when two callers use the same client with their steps interleaved, a
\* bad state is reachable: the direction line at transmit level while the
\* other caller is in its receive loop, the bytes of two requests interleaved
\* on the wire, or a caller consuming bytes of the answer to the other's
\* request.  None of them holds unless both callers have entered their calls
\* and the first has not returned, and the line is at transmit level during a
\* receive loop only while the other caller is inside sendData; the three
\* states reached are C34_OtherAnswerConsumed, TransmitDuringReceive and
\* FramesInterleaved.
C34_CorruptionNeedsTwoCallers ==
    /\ (TransmitDuringReceive \/ FramesInterleaved \/ ForeignBytesConsumed) =>
           (pc # "idle" /\ peer.pc # "idle")
    /\ (pinLevel = RS485Transmit /\ pc \in ReceivingPcs) => peer.pc \in SendingPcs
    /\ (pinLevel = RS485Transmit /\ peer.pc \in ReceivingPcs) => pc \in SendingPcs

\* the read of the running state ended in failure holding the first seven
\* bytes of the echo that answered the other caller's write
C34_OtherAnswerConsumed ==
    /\ pc = "done"
    /\ op = "readRunningState"
    /\ ~ret
    /\ nReads = 7
    /\ buffer.mem = SubSeq(peer.answer, 1, 7)
    /\ buffer.mem[2] = WRITE_ONE

(***************************************************************************)
(* The wrappers of the fixed registers                                      *)
(***************************************************************************)
\* the call has gone past the write of its request to the port
PastWrite == pc \in { "sd_flush", "sd_receive", "receiveData", "rd_while", "rd_read",
                      "rd_char", "rd_return", "returned", "done" }

\* the call was made on an initialized client with a place for the result
Admitted == _initialized /\ pc # "idle" /\ ~argBefore.null

\* the bytes written are one request of 8 bytes that starts with head
SentOnce(head) == Len(txLog) = 8 /\ SubSeq(txLog, 1, 6) = head

\* C35: on an initialized client readFaultDescription sends one read request
\* (function 0x03) for 1 register at address 0x8000, readRunningState one read
\* request for 1 register at address 0x3000, and writeControlCommand(c) one
\* single-register write (function 0x06) to address 0x2000 with the value of
\* c, 0 for FORWARD_RUN_COMMAND up to 6 for FAULT_RESET_COMMAND; with a null
\* output pointer the two reads return false with no byte written or read and
\* the pin untouched.
C35_FixedRegisterWrappers ==
    /\ (op = "readFaultDescription" /\ Admitted /\ PastWrite) =>
           SentOnce(<< _slaveAddress, 3, 128, 0, 0, 1 >>)
    /\ (op = "readRunningState" /\ Admitted /\ PastWrite) =>
           SentOnce(<< _slaveAddress, 3, 48, 0, 0, 1 >>)
    /\ (op = "writeControlCommand" /\ Admitted /\ PastWrite) =>
           /\ arrayValues.mem[1] \in 0..6
           /\ SentOnce(<< _slaveAddress, 6, 32, 0, 0, arrayValues.mem[1] >>)
    /\ (op \in { "readFaultDescription", "readRunningState", "writeControlCommand" }
          /\ Admitted) => pc # "done" \/ PastWrite
    /\ (op \in { "readFaultDescription", "readRunningState" } /\ argBefore.null) =>
           /\ pc = "done"
           /\ ~ret
           /\ txLog = << >>
           /\ nPinWrites = 0
           /\ nReads = 0

\* FORWARD_RUN_COMMAND written and acknowledged: 0x06 to 0x2000 with value 0
C35_ForwardRunWritten ==
    /\ pc = "done"
    /\ op = "writeControlCommand"
    /\ ret
    /\ arrayValues.mem[1] = FORWARD_RUN_COMMAND
    /\ SubSeq(txLog, 1, 6) = << _slaveAddress, 6, 32, 0, 0, 0 >>

(***************************************************************************)
(* What checkCommunicationSettings reports                                  *)
(***************************************************************************)
\* the content of the slave's register at address a: the slave answers a read
\* that starts at startAddress with Values(seed, n), so the register i places
\* after the start holds seed + i * 259
SlaveRegister(a) ==
    LET seed == CHOOSE x \in SlaveSeeds : TRUE
    IN  U16(seed + ((a - startAddress) * 259))

\* checkCommunicationSettings has ended on a client with a debug port
CcsEnded == pc = "done" /\ op = "checkCommunicationSettings" /\ _serialDebug

\* the value printed after the label "FC.05" is the content of the fifth
\* register read, (GROUP_FC, 4) at address 0x0C04
ReportsRegisterFour ==
    (CcsEnded /\ ret) =>
        /\ report[5][1] = "FC.05 (Error Communication): "
        /\ report[5][2] = answerVals[5]
        /\ report[5][2] = SlaveRegister(buildParameterAddress(GROUP_FC, 4))

\* C36: checkCommunicationSettings, when it succeeds, prints after the labels
\* FC.00, FC.01, FC.02 and FC.03 the contents of the registers (GROUP_FC, 0)
\* to (GROUP_FC, 3), and after the label FC.05 the content of the register
\* (GROUP_FC, 5) at address 0x0C05; it returns true exactly when its one read
\* of five registers succeeded.
C36_ReportsNamedRegisters ==
    /\ (CcsEnded /\ ret) =>
           /\ Len(report) = 5
           /\ \A i \in 1..4 :
                  report[i][2] = SlaveRegister(buildParameterAddress(GROUP_FC, i - 1))
           /\ report[5][2] = SlaveRegister(buildParameterAddress(GROUP_FC, 5))
    /\ CcsEnded =>
           /\ Len(txLog) <= 8
           /\ ret <=> /\ received
                       /\ ReadResponseAccepted(buffer.mem, length, _slaveAddress, 5)
====
